---- MODULE Spec2Model ----
(***************************************************************************)
(* A model of the feed-forward network engine of the repository           *)
(* (src/src/nn): NeuralNetwork (construction, forward_prop, back_prop,     *)
(* fit, predict), save_model / load_model and the metrics evaluator.       *)
(*                                                                         *)
(* Numbers: numpy float64 values are modelled in fixed point, an integer v *)
(* standing for v / One, every product and quotient rounded to the nearest *)
(* representable value as floating point rounds.  Counts (layer widths,    *)
(* batch_size, epochs, indices) are plain integers.                        *)
(*                                                                         *)
(* Arrays: a 2-D numpy array, or the nested Python list that tolist()      *)
(* makes of one, is a record [kind, r, c, d]: kind is "ndarray" or "list", *)
(* r and c are the dimensions and d[i][j] the elements (1-based).          *)
(***************************************************************************)
EXTENDS Integers, Sequences, FiniteSets

\* Fixed-point unit: the integer that stands for 1.0.
One == 1000

\* Bounds of the exploration.
MaxSamples == 3
MaxEpochs == 2
MaxCalls == 3

\* Architectures, batch sizes and random draws a caller may use.
Archs == { <<2, 1>>, <<1, 1, 1>>, <<2, 1, 1>>, <<2, 2, 1>>, <<2, 1, 2>> }
BatchSizes == {1, 2}
Seeds == {0, 1}
LearningRates == {One}

----------------------------------------------------------------------------
(* Arithmetic *)

\* n / d rounded to the nearest integer (d > 0).
RoundDiv(n, d) == (2 * n + d) \div (2 * d)

\* Product of two fixed-point values.
Mul(a, b) == RoundDiv(a * b, One)

\* np.exp, to second order around 0 and by e^-x = 1 / e^x below 0, so that it
\* is positive and monotone on the whole range.
ExpPos(v) == One + v + RoundDiv(v * v, 2 * One)
Exp(v) == IF v >= 0 THEN ExpPos(v) ELSE RoundDiv(One * One, ExpPos(-v))

\* float64 has a largest finite value; results beyond it are inf, and
\* inf - inf, inf * 0 and every operation on nan give nan.  The range is
\* scaled to the fixed-point grid: 500.0 is the largest finite value.
\* The three non-finite values lie outside the finite range, the infinities
\* on their own side of it, so that comparisons with them are numpy's.
MaxFloat == 500 * One
PosInf == MaxFloat + 1
NegInf == -(MaxFloat + 1)
NaN == -(MaxFloat + 2)

IsFinite(a) == NegInf < a /\ a < PosInf
Abs(a) == IF a < 0 THEN -a ELSE a

\* A finite result, or the infinity it overflows to.
Overflow(v) == IF v > MaxFloat THEN PosInf ELSE IF v < -MaxFloat THEN NegInf ELSE v

FNeg(a) == IF a = NaN THEN NaN ELSE -a
FAdd(a, b) ==
    IF a = NaN \/ b = NaN THEN NaN
    ELSE IF IsFinite(a) /\ IsFinite(b) THEN Overflow(a + b)
    ELSE IF IsFinite(a) THEN b
    ELSE IF IsFinite(b) THEN a
    ELSE IF a = b THEN a ELSE NaN
FSub(a, b) == FAdd(a, FNeg(b))
FMul(a, b) ==
    IF a = NaN \/ b = NaN THEN NaN
    ELSE IF a = 0 \/ b = 0 THEN (IF IsFinite(a) /\ IsFinite(b) THEN 0 ELSE NaN)
    ELSE IF IsFinite(a) /\ IsFinite(b) /\ Abs(b) <= (MaxFloat * One) \div Abs(a)
         THEN Overflow(RoundDiv(a * b, One))
    ELSE IF (a > 0) = (b > 0) THEN PosInf ELSE NegInf

\* a / n for a positive count n.
FDivCount(a, n) == IF IsFinite(a) THEN RoundDiv(a, n) ELSE a

\* 1 / a for a >= 1 or a non-finite.
FRecip(a) == IF a = NaN THEN NaN ELSE IF a = PosInf THEN 0 ELSE RoundDiv(One * One, a)

\* np.exp on the whole float range: beyond 31.0 the series passes MaxFloat.
FExp(v) ==
    IF v = NaN THEN NaN
    ELSE IF v > 31 * One THEN PosInf
    ELSE IF v < -(31 * One) THEN 0
    ELSE Overflow(Exp(v))

RECURSIVE FSum(_)
FSum(s) == IF Len(s) = 0 THEN 0 ELSE FAdd(s[1], FSum(Tail(s)))

----------------------------------------------------------------------------
(* Arrays *)

NdArray(r, c, d) == [kind |-> "ndarray", r |-> r, c |-> c, d |-> d]

\* a.T
Transpose(a) ==
    NdArray(a.c, a.r, [j \in 1..a.c |-> [i \in 1..a.r |-> a.d[i][j]]])

\* np.dot(a, b) is defined when the inner dimensions agree.
DotOK(a, b) == a.c = b.r
Dot(a, b) ==
    NdArray(a.r, b.c,
        [i \in 1..a.r |-> [j \in 1..b.c |->
            FSum([k \in 1..a.c |-> FMul(a.d[i][k], b.d[k][j])])]])

\* numpy broadcasting of two 2-D operands.
BroadcastOK(a, b) ==
    /\ (a.r = b.r \/ a.r = 1 \/ b.r = 1)
    /\ (a.c = b.c \/ a.c = 1 \/ b.c = 1)
BRows(a, b) == IF a.r = 1 THEN b.r ELSE a.r
BCols(a, b) == IF a.c = 1 THEN b.c ELSE a.c
BGet(a, i, j) == a.d[IF a.r = 1 THEN 1 ELSE i][IF a.c = 1 THEN 1 ELSE j]
BAdd(a, b) ==
    NdArray(BRows(a, b), BCols(a, b),
        [i \in 1..BRows(a, b) |-> [j \in 1..BCols(a, b) |->
            FAdd(BGet(a, i, j), BGet(b, i, j))]])
BSub(a, b) ==
    NdArray(BRows(a, b), BCols(a, b),
        [i \in 1..BRows(a, b) |-> [j \in 1..BCols(a, b) |->
            FSub(BGet(a, i, j), BGet(b, i, j))]])

\* Elementwise map helpers.
Scale(a, k) == NdArray(a.r, a.c, [i \in 1..a.r |-> [j \in 1..a.c |-> FMul(k, a.d[i][j])]])
DivCount(a, n) == NdArray(a.r, a.c, [i \in 1..a.r |-> [j \in 1..a.c |-> FDivCount(a.d[i][j], n)]])

\* np.sum(a, axis=1, keepdims=True)
SumAxis1(a) == NdArray(a.r, 1, [i \in 1..a.r |-> <<FSum(a.d[i])>>])

\* a.flatten(): row-major.
Flatten(a) == [k \in 1..(a.r * a.c) |-> a.d[((k - 1) \div a.c) + 1][((k - 1) % a.c) + 1]]

----------------------------------------------------------------------------
(* Activations (nn/activations.py) and loss (nn/losses.py) *)

sigmoid(x) ==
    NdArray(x.r, x.c, [i \in 1..x.r |-> [j \in 1..x.c |->
        FRecip(FAdd(One, FExp(FNeg(x.d[i][j]))))]])

\* np.maximum(0, x) hands a nan on.
relu(x) ==
    NdArray(x.r, x.c, [i \in 1..x.r |-> [j \in 1..x.c |->
        IF x.d[i][j] = NaN THEN NaN ELSE IF x.d[i][j] > 0 THEN x.d[i][j] ELSE 0]])

drelu(x) ==
    NdArray(x.r, x.c, [i \in 1..x.r |-> [j \in 1..x.c |->
        IF x.d[i][j] > 0 THEN One ELSE 0]])

\* eps = 1e-8 lies below the fixed-point resolution: the smallest positive
\* value stands for it, so that clipping still keeps log away from 0.
Eps == 1

\* np.log, by the first term of its area-tangent series.
Ln(v) == RoundDiv(2 * One * (v - One), v + One)

Clip(v, lo, hi) == IF v < lo THEN lo ELSE IF v > hi THEN hi ELSE v

\* bce_loss(y_true, y_pred): both operands broadcast; np.mean of an empty
\* array is nan.
bce_loss(y_true, y_pred) ==
    LET rows == BRows(y_true, y_pred)
        cols == BCols(y_true, y_pred)
        term(i, j) ==
            LET a == Clip(BGet(y_pred, i, j), Eps, One - Eps)
                y == BGet(y_true, i, j)
            IN  IF BGet(y_pred, i, j) = NaN
                THEN NaN
                ELSE Mul(y, Ln(a)) + Mul(One - y, Ln(One - a))
        total == FSum([i \in 1..rows |-> FSum([j \in 1..cols |-> term(i, j)])])
    IN  IF rows * cols = 0 \/ total = NaN THEN NaN ELSE -RoundDiv(total, rows * cols)

----------------------------------------------------------------------------
(* NeuralNetwork (nn/model.py) *)

\* np.random.randn(r, c) * np.sqrt(k / fan_in): the draw is a choice of
\* seed; the values lie on the fixed-point grid in [-1, 1].
RandomMatrix(seed, layer, r, c) ==
    NdArray(r, c, [i \in 1..r |-> [j \in 1..c |->
        (((seed + 2 * layer + i + 3 * j) % 5) - 2) * (One \div 2)]])

\* np.zeros(n).reshape(-1, 1)
ZeroColumn(n) == NdArray(n, 1, [i \in 1..n |-> <<0>>])

\* Variant of NewNetwork: the weight matrices are drawn with the fan-in and
\* fan-out dimensions exchanged.
NewNetworkSwapped(layers, lr, batch_size, seed) ==
    [layers     |-> layers,
     lr         |-> lr,
     batch_size |-> batch_size,
     weights    |-> [i \in 1..(Len(layers) - 1) |->
                        RandomMatrix(seed, i, layers[i], layers[i + 1])],
     biases     |-> [i \in 1..(Len(layers) - 1) |-> ZeroColumn(layers[i + 1])]]

\* NeuralNetwork.__init__(layers, lr, batch_size)
NewNetwork(layers, lr, batch_size, seed) ==
    [layers     |-> layers,
     lr         |-> lr,
     batch_size |-> batch_size,
     weights    |-> [i \in 1..(Len(layers) - 1) |->
                        RandomMatrix(seed, i, layers[i + 1], layers[i])],
     biases     |-> [i \in 1..(Len(layers) - 1) |-> ZeroColumn(layers[i + 1])]]

\* forward_prop(x): the loop over the layer transitions, ReLU on all but the
\* last and sigmoid on the last.  The result carries ok = FALSE when a
\* np.dot or a broadcast met mismatched dimensions (numpy raises ValueError,
\* and self.activations / self.z are not assigned).
RECURSIVE ForwardLayers(_, _, _, _)
ForwardLayers(n, acts, zs, i) ==
    IF i > Len(n.weights)
    THEN [ok |-> TRUE, activations |-> acts, z |-> zs]
    ELSE IF ~DotOK(n.weights[i], acts[i])
         THEN [ok |-> FALSE, activations |-> acts, z |-> zs]
         ELSE LET wa == Dot(n.weights[i], acts[i])
              IN  IF ~BroadcastOK(wa, n.biases[i])
                  THEN [ok |-> FALSE, activations |-> acts, z |-> zs]
                  ELSE LET zi == BAdd(wa, n.biases[i])
                           ai == IF i < Len(n.weights) THEN relu(zi) ELSE sigmoid(zi)
                       IN  ForwardLayers(n, Append(acts, ai), Append(zs, zi), i + 1)

\* Variant of forward_prop: the pre-activation of the output layer is not
\* retained.
forward_prop_drops_z(n, x) ==
    LET fp == ForwardLayers(n, <<x>>, <<>>, 1)
    IN  [fp EXCEPT !.z = SubSeq(fp.z, 1, Len(fp.z) - 1)]

\* Variant of forward_prop: an input with more rows than layers[0] is cut to
\* its first layers[0] rows instead of being multiplied as it is.
forward_prop_cuts_input(n, x) ==
    LET rows == IF x.r > n.layers[1] THEN n.layers[1] ELSE x.r
    IN  ForwardLayers(n, <<NdArray(rows, x.c, [r \in 1..rows |-> x.d[r]])>>, <<>>, 1)

forward_prop(n, x) == ForwardLayers(n, <<x>>, <<>>, 1)

\* back_prop, the error terms.  The indices are the code's: layer i in
\* 1..L-1 has error dz[i], its own pre-activation is z[i-1] (here zs[i]),
\* the weights leading out of it are weights[i] (here n.weights[i + 1]).
RECURSIVE Dz(_, _, _, _, _)
Dz(n, acts, zs, y, i) ==
    IF i = Len(n.layers) - 1
    THEN BSub(acts[Len(n.layers)], y)
    ELSE LET back == Dot(Transpose(n.weights[i + 1]), Dz(n, acts, zs, y, i + 1))
             mask == drelu(zs[i])
         IN  NdArray(back.r, back.c,
                 [r \in 1..back.r |-> [c \in 1..back.c |->
                     FMul(back.d[r][c], mask.d[r][c])]])

\* Variant of Dw: the error of layer i is multiplied with the activation of
\* layer i itself instead of that of the layer before it.
DwOwnActivation(n, acts, zs, y, i) ==
    DivCount(Dot(Dz(n, acts, zs, y, i), Transpose(acts[i + 1])), n.batch_size)

\* dw[i] = np.dot(dz[i], activations[i-1].T) / batch_size
Dw(n, acts, zs, y, i) ==
    DivCount(Dot(Dz(n, acts, zs, y, i), Transpose(acts[i])), n.batch_size)

\* db[i] = np.sum(dz[i], axis=1, keepdims=True) / batch_size
Db(n, acts, zs, y, i) ==
    DivCount(SumAxis1(Dz(n, acts, zs, y, i)), n.batch_size)

\* p -= lr * g.  On an ndarray the subtraction is in place and the result
\* must have p's own shape; on a list (which has no in-place subtraction)
\* Python evaluates p - lr * g through numpy and rebinds the broadcast result.
StepOK(p, g) ==
    /\ BroadcastOK(p, g)
    /\ p.kind = "ndarray" => (BRows(p, g) = p.r /\ BCols(p, g) = p.c)
Step(p, g, lr) == BSub(p, Scale(g, lr))

\* Variant of UpdateLayers: every layer is updated as soon as its gradient
\* is known, the output layer first, so that the error of a hidden layer is
\* propagated through weights that have been updated already.
RECURSIVE UpdateLayersBackward(_, _, _, _, _, _, _)
UpdateLayersBackward(n, acts, zs, y, ws, bs, i) ==
    IF i > Len(n.layers) - 1
    THEN [status |-> "ok", weights |-> ws, biases |-> bs]
    ELSE LET k  == Len(n.layers) - i
             m  == [n EXCEPT !.weights = ws, !.biases = bs]
             dw == Dw(m, acts, zs, y, k)
             db == Db(m, acts, zs, y, k)
         IN  IF ~StepOK(ws[k], dw) \/ ~StepOK(bs[k], db)
             THEN [status |-> "ValueError", weights |-> ws, biases |-> bs]
             ELSE UpdateLayersBackward(n, acts, zs, y,
                      [ws EXCEPT ![k] = Step(ws[k], dw, n.lr)],
                      [bs EXCEPT ![k] = Step(bs[k], db, n.lr)], i + 1)

\* The update loop of back_prop, layer by layer from the first; a layer
\* whose update raises leaves the earlier layers already updated.
RECURSIVE UpdateLayers(_, _, _, _, _, _, _)
UpdateLayers(n, acts, zs, y, ws, bs, i) ==
    IF i > Len(n.layers) - 1
    THEN [status |-> "ok", weights |-> ws, biases |-> bs]
    ELSE LET dw == Dw(n, acts, zs, y, i)
             db == Db(n, acts, zs, y, i)
         IN  IF ~StepOK(ws[i], dw)
             THEN [status |-> "ValueError", weights |-> ws, biases |-> bs]
             ELSE LET ws1 == [ws EXCEPT ![i] = Step(ws[i], dw, n.lr)]
                  IN  IF ~StepOK(bs[i], db)
                      THEN [status |-> "ValueError", weights |-> ws1, biases |-> bs]
                      ELSE UpdateLayers(n, acts, zs, y, ws1,
                               [bs EXCEPT ![i] = Step(bs[i], db, n.lr)], i + 1)

\* weights[i].T in the hidden-layer loop needs an ndarray: a nested list has
\* no attribute T.
HiddenTransposeOK(n) ==
    \A i \in 1..(Len(n.layers) - 2) : n.weights[i + 1].kind = "ndarray"

\* back_prop(y) on the retained activations and pre-activations.  The
\* gradients of all layers are computed from the weights on entry; the
\* result is the outcome and the parameters the network is left with.
back_prop(n, acts, zs, y) ==
    IF ~BroadcastOK(acts[Len(n.layers)], y)
    THEN [status |-> "ValueError", weights |-> n.weights, biases |-> n.biases]
    ELSE IF ~HiddenTransposeOK(n)
    THEN [status |-> "AttributeError", weights |-> n.weights, biases |-> n.biases]
    ELSE UpdateLayers(n, acts, zs, y, n.weights, n.biases, 1)

\* X = np.array(X); a 1-D input of n features is reshaped to one row.
AsBatch(X) ==
    IF X.ndim = 1 THEN NdArray(1, X.n, <<X.v>>) ELSE X.a

\* Variant of predict: the confidence is the raw output whatever the class.
predict_raw_confidence(n, X) ==
    LET fp    == ForwardLayers(n, <<Transpose(AsBatch(X))>>, <<>>, 1)
        probs == Flatten(fp.activations[Len(fp.activations)])
        results == [k \in 1..Len(probs) |->
                       [result |-> IF 2 * probs[k] >= One THEN 1 ELSE 0,
                        confidence |-> probs[k]]]
    IN  IF ~fp.ok
        THEN [status |-> "ValueError", forward |-> fp, kind |-> "none", items |-> <<>>]
        ELSE [status |-> "ok", forward |-> fp,
              kind   |-> IF Len(results) = 1 THEN "dict" ELSE "list",
              items  |-> results]

\* Variant of predict: the list is returned even when it holds one pair.
predict_always_list(n, X) ==
    LET fp    == ForwardLayers(n, <<Transpose(AsBatch(X))>>, <<>>, 1)
        probs == Flatten(fp.activations[Len(fp.activations)])
        results == [k \in 1..Len(probs) |->
                       [result |-> IF 2 * probs[k] >= One THEN 1 ELSE 0,
                        confidence |-> IF 2 * probs[k] >= One
                                       THEN probs[k] ELSE FSub(One, probs[k])]]
    IN  IF ~fp.ok
        THEN [status |-> "ValueError", forward |-> fp, kind |-> "none", items |-> <<>>]
        ELSE [status |-> "ok", forward |-> fp, kind |-> "list", items |-> results]

\* predict(X): the forward pass, then one {result, confidence} per element
\* of the flattened output; a single element is returned bare.
predict(n, X) ==
    LET fp    == forward_prop(n, Transpose(AsBatch(X)))
        probs == Flatten(fp.activations[Len(fp.activations)])
        predictions == [k \in 1..Len(probs) |-> IF 2 * probs[k] >= One THEN 1 ELSE 0]
        confidences == [k \in 1..Len(probs) |->
                           IF predictions[k] = 1 THEN probs[k] ELSE FSub(One, probs[k])]
        results == [k \in 1..Len(predictions) |->
                       [result |-> predictions[k], confidence |-> confidences[k]]]
    IN  IF ~fp.ok
        THEN [status |-> "ValueError", forward |-> fp, kind |-> "none", items |-> <<>>]
        ELSE [status |-> "ok", forward |-> fp,
              kind   |-> IF Len(results) = 1 THEN "dict" ELSE "list",
              items  |-> results]

----------------------------------------------------------------------------
(* Persistence (nn/saving.py) *)

\* np.array(arrays, dtype=object): numpy takes as array dimensions the
\* leading dimensions all elements share.  Elements of one common shape are
\* merged into a single 3-D array of scalars ("stacked"); elements whose
\* first dimensions differ stay whole inside a 1-D array ("ragged");
\* arrays that share the first dimension but not the second cannot be
\* placed and numpy raises ValueError ("error").
ObjectArrayForm(ms) ==
    IF \A a, b \in 1..Len(ms) : ms[a].r = ms[b].r /\ ms[a].c = ms[b].c
    THEN "stacked"
    ELSE IF \A a, b \in 1..Len(ms) : ms[a].r = ms[b].r
         THEN "error"
         ELSE "ragged"

\* The array holds the elements' values by position whatever container
\* (ndarray or nested list) each came in.
ObjectArray(ms) ==
    [form  |-> ObjectArrayForm(ms),
     items |-> [k \in 1..Len(ms) |-> NdArray(ms[k].r, ms[k].c, ms[k].d)]]

\* tolist(): a stacked array comes back as nested lists of scalars, a
\* ragged one as the list of its ndarray elements.
ToList(oa) ==
    IF oa.form = "stacked"
    THEN [k \in 1..Len(oa.items) |-> [oa.items[k] EXCEPT !.kind = "list"]]
    ELSE oa.items

\* The keyword arguments of np.savez_compressed: the fields of an artifact.
ArtifactFields == {"layers", "lr", "batch_size", "weights", "biases"}

\* save_model(model, path): the artifact written, or the error raised while
\* the arguments of np.savez_compressed are built.
save_model(n) ==
    LET w == ObjectArray(n.weights)
        b == ObjectArray(n.biases)
    IN  IF w.form = "error" \/ b.form = "error"
        THEN [status |-> "ValueError"]
        ELSE [status |-> "ok",
              data   |-> [fields |-> ArtifactFields,
                          layers |-> n.layers, lr |-> n.lr,
                          batch_size |-> n.batch_size,
                          weights |-> w, biases |-> b]]

\* Variant of load_model: the stored parameters are not put in place of the
\* random ones.
load_model_keeps_random(data, seed) ==
    NewNetwork(data.layers, data.lr, data.batch_size, seed)

\* load_model(path): a new NeuralNetwork of the stored architecture whose
\* weights and biases are then replaced by the stored ones.  Every field
\* is read with data[name] before the Network is made.
load_model(data, seed) ==
    [NewNetwork(data.layers, data.lr, data.batch_size, seed)
        EXCEPT !.weights = ToList(data.weights),
               !.biases  = ToList(data.biases)]

----------------------------------------------------------------------------
(* The program: one caller, one Network, one artifact on disk.  A call
   runs to completion before the next starts; fit is followed line by line. *)

VARIABLES
    net,          \* the caller's Network: layers, lr, batch_size, weights, biases
    activations,  \* self.activations, <<>> while the attribute is not yet set
    z,            \* self.z, likewise
    file,         \* the saved artifact, or NoFile
    saved,        \* the Network as it was when the artifact was written
    pc,           \* "idle", or the line fit has reached
    fit,          \* the locals of the running fit call
    entry,        \* weights and biases on entry to the running fit call
    updates,      \* sample indices of each gradient step of the current epoch
    step,         \* the operation or line executed last
    ret,          \* outcome of the last completed call
    calls,        \* number of calls made so far
    trained,      \* whether a training call (fit or back_prop) has been made
    y_true,       \* evaluate: the true labels
    y_pred,       \* evaluate: the predicted labels
    report,       \* evaluate: the report returned, or NoReport
    rng,          \* state of numpy's global random generator, or Unseeded
    plan,         \* the arguments of a script that is run twice, or NoPlan
    store,        \* the S3 bucket's prediction_history and current_predictions
    job,          \* the daily automation: where it is and what it returned last
    espn,         \* ESPN's scoreboard: the status of every game
    ledger,       \* the games taken out of current_predictions so far,
                  \* whether a game was predicted while its row was in it, and the
                  \* games update_predictions resolved as finished so far
    bucket,       \* the keys of the S3 bucket that hold an object
    trainer,      \* the ModelTrainer instance made last
    boot,         \* bootstrap_model and wait_for_required_files: how they ended
    runner        \* run_daily_automation: the clock and where the loop is

vars == <<net, activations, z, file, saved, pc, fit, entry, updates, step, ret, calls, trained,
         y_true, y_pred, report, rng, plan, store, job, espn, ledger,
         bucket, trainer, boot, runner>>

netVars == <<net, activations, z, file, saved, pc, fit, entry, updates, step, ret,
            calls, trained>>
metricVars == <<y_true, y_pred, report>>
dailyVars == <<store, job, espn, ledger>>
opsVars == <<bucket, trainer, boot, runner>>

\* Before any ModelTrainer is made, bootstrap_model is run or the automation
\* runner is started.
NoTrainer == [made |-> FALSE, client |-> FALSE, given |-> <<>>, layers |-> <<>>,
              calls |-> 0, input_dim |-> 0, built |-> <<>>, returned |-> "none"]
NoBoot == [calls |-> 0, last |-> "none", retrained |-> FALSE, wait |-> "idle"]
NoRunner == [pc |-> "off"]
OpsIdle ==
    /\ bucket = {}
    /\ trainer = NoTrainer
    /\ boot = NoBoot
    /\ runner = NoRunner

NoFile == [status |-> "missing"]
NoFit  == [X |-> NdArray(0, 0, <<>>), Y |-> NdArray(0, 0, <<>>), epochs |-> 0,
           samples |-> 0, batches |-> 0, i |-> 0, j |-> 0,
           indices |-> <<>>, losses |-> <<>>]
NoPlan == [run |-> 0]

\* numpy's global generator is seeded from the system's entropy unless the
\* caller seeds it: its state is then unknown and any draw may come.  A
\* seeded generator is a function of its state, which every draw advances.
Unseeded == -1
Advance(g, k) == IF g = Unseeded THEN Unseeded ELSE g + k
SeedsAt(g) == IF g = Unseeded THEN Seeds ELSE {g}
NoRet  == [op |-> "none", status |-> "ok", kind |-> "none", items |-> <<>>]

Returned(op, status) == [op |-> op, status |-> status, kind |-> "none", items |-> <<>>]

\* The caller's data: sample k has the feature row FeatureRow(k, f) and the
\* label Label(k); the rows of distinct samples differ.
FeatureRow(k, f) == [c \in 1..f |-> (k - 2) * One + (c - 1) * (One \div 2)]
Label(k) == One * (k % 2)
Features(n, f) == NdArray(n, f, [k \in 1..n |-> FeatureRow(k, f)])
Labels(n) == NdArray(n, 1, [k \in 1..n |-> <<Label(k)>>])

\* Feature counts a caller may pass: the configured one and one too many.
FeatureCounts == {net.layers[1], net.layers[1] + 1}

\* Inputs of predict: a 1-D feature vector, or a batch of 0, 1 or 3 rows.
PredictRows == {0, 1, 3}

\* Sample counts of a direct forward_prop call.
ForwardColumns == {1, 2}
PredictInputs ==
    {[ndim |-> 1, n |-> f, v |-> FeatureRow(1, f)] : f \in FeatureCounts}
    \cup {[ndim |-> 2, a |-> Features(n, f)] : n \in PredictRows, f \in FeatureCounts}

NetInit ==
    /\ \E layers \in Archs, lr \in LearningRates, b \in BatchSizes, seed \in Seeds :
           net = NewNetwork(layers, lr, b, seed)
    /\ activations = <<>>
    /\ z = <<>>
    /\ file = NoFile
    /\ saved = NoFile
    /\ pc = "idle"
    /\ fit = NoFit
    /\ entry = <<>>
    /\ updates = <<>>
    /\ step = "init"
    /\ ret = NoRet
    /\ calls = 0
    /\ trained = FALSE

CanCall == pc = "idle" /\ calls < MaxCalls

\* Variant of Predict: the probabilities are read from self.activations
\* before the forward pass of the call has written them, when an earlier
\* call left any.
PredictStale ==
    /\ CanCall
    /\ \E X \in PredictInputs :
           LET out   == predict(net, X)
               probs == Flatten(activations[Len(activations)])
               stale == [k \in 1..Len(probs) |->
                            [result |-> IF 2 * probs[k] >= One THEN 1 ELSE 0,
                             confidence |-> IF 2 * probs[k] >= One
                                            THEN probs[k] ELSE FSub(One, probs[k])]]
           IN  /\ activations' = IF out.status = "ok" THEN out.forward.activations ELSE activations
               /\ z' = IF out.status = "ok" THEN out.forward.z ELSE z
               /\ ret' = [op |-> "predict", status |-> out.status,
                          kind |-> out.kind,
                          items |-> IF out.status = "ok" /\ activations # <<>>
                                    THEN stale ELSE out.items]
    /\ step' = "predict"
    /\ UNCHANGED <<metricVars, rng, plan, dailyVars, opsVars>>
    /\ calls' = calls + 1
    /\ UNCHANGED <<net, file, saved, pc, fit, entry, updates, trained>>

\* model.predict(X)
Predict ==
    /\ CanCall
    /\ \E X \in PredictInputs :
           LET out == predict(net, X)
           IN  /\ activations' = IF out.status = "ok" THEN out.forward.activations ELSE activations
               /\ z' = IF out.status = "ok" THEN out.forward.z ELSE z
               /\ ret' = [op |-> "predict", status |-> out.status,
                          kind |-> out.kind, items |-> out.items]
    /\ step' = "predict"
    /\ UNCHANGED <<metricVars, rng, plan, dailyVars, opsVars>>
    /\ calls' = calls + 1
    /\ UNCHANGED <<net, file, saved, pc, fit, entry, updates, trained>>

\* model.forward_prop(x), x with the samples as columns
ForwardProp ==
    /\ CanCall
    /\ \E n \in ForwardColumns :
           LET fp == forward_prop(net, Transpose(Features(n, net.layers[1])))
           IN  /\ activations' = IF fp.ok THEN fp.activations ELSE activations
               /\ z' = IF fp.ok THEN fp.z ELSE z
               /\ ret' = Returned("forward_prop", IF fp.ok THEN "ok" ELSE "ValueError")
    /\ step' = "forward_prop"
    /\ UNCHANGED <<metricVars, rng, plan, dailyVars, opsVars>>
    /\ calls' = calls + 1
    /\ UNCHANGED <<net, file, saved, pc, fit, entry, updates, trained>>

\* model.back_prop(y), y the label row of the samples of the last forward
\* pass; without a forward pass self.activations does not exist.
BackProp ==
    /\ CanCall
    /\ ~trained
    /\ trained' = TRUE
    /\ IF activations = <<>>
       THEN /\ ret' = Returned("back_prop", "AttributeError")
            /\ net' = net
       ELSE LET y  == Transpose(Labels(activations[1].c))
                bp == back_prop(net, activations, z, y)
            IN  /\ net' = [net EXCEPT !.weights = bp.weights, !.biases = bp.biases]
                /\ ret' = Returned("back_prop", bp.status)
    /\ step' = "back_prop"
    /\ UNCHANGED <<metricVars, rng, plan, dailyVars, opsVars>>
    /\ calls' = calls + 1
    /\ UNCHANGED <<activations, z, file, saved, pc, fit, entry, updates>>

\* save_model(model, path)
Save ==
    /\ CanCall
    /\ LET out == save_model(net)
       IN  /\ file' = IF out.status = "ok" THEN out ELSE file
           /\ saved' = IF out.status = "ok" THEN net ELSE saved
           /\ ret' = Returned("save_model", out.status)
    /\ step' = "save_model"
    /\ UNCHANGED <<metricVars, rng, plan, dailyVars, opsVars>>
    /\ calls' = calls + 1
    /\ UNCHANGED <<net, activations, z, pc, fit, entry, updates, trained>>

\* model = load_model(path): the caller goes on with the loaded Network,
\* which has no activations yet.
Load ==
    /\ CanCall
    /\ IF file = NoFile
       THEN /\ ret' = Returned("load_model", "FileNotFoundError")
            /\ UNCHANGED <<net, activations, z>>
       ELSE IF ~(ArtifactFields \subseteq file.data.fields)
       THEN /\ ret' = Returned("load_model", "KeyError")
            /\ UNCHANGED <<net, activations, z>>
       ELSE /\ \E seed \in SeedsAt(rng) : net' = load_model(file.data, seed)
            /\ activations' = <<>>
            /\ z' = <<>>
            /\ ret' = Returned("load_model", "ok")
    /\ rng' = IF file # NoFile /\ ArtifactFields \subseteq file.data.fields
              THEN Advance(rng, Len(file.data.layers) - 1)
              ELSE rng
    /\ step' = "load_model"
    /\ UNCHANGED <<metricVars, plan, dailyVars, opsVars>>
    /\ calls' = calls + 1
    /\ UNCHANGED <<file, saved, pc, fit, entry, updates, trained>>

----------------------------------------------------------------------------
(* fit(X, Y, epochs), line by line *)

\* np.random.permutation(samples): the draw is the identity, its rotation
\* by one place or its reversal.  Indices are 1-based here.
Rotation(n, s) == [k \in 1..n |-> ((k - 1 + s) % n) + 1]
Reversed(p) == [k \in 1..Len(p) |-> p[Len(p) + 1 - k]]
PermutationDraws(n) ==
    {Rotation(n, 0), Rotation(n, 1), Reversed(Rotation(n, 0))}

\* np.random.permutation(samples) on the generator in state g.
PermutationsAt(g, n) ==
    IF g = Unseeded
    THEN PermutationDraws(n)
    ELSE {<<Rotation(n, 0), Rotation(n, 1), Reversed(Rotation(n, 0))>>[(g % 3) + 1]}

\* Label inputs of fit: shape (n,) or (n, 1).
LabelInputs(n) ==
    {[ndim |-> 1, n |-> n, v |-> [k \in 1..n |-> Label(k)]],
     [ndim |-> 2, a |-> Labels(n)]}

\* if Y.ndim == 1: Y = Y.reshape(-1, 1)
AsColumn(Y) ==
    IF Y.ndim = 1 THEN NdArray(Y.n, 1, [k \in 1..Y.n |-> <<Y.v[k]>>]) ELSE Y.a

\* a[indices]: the rows of a in the order of indices.
Take(a, indices) == NdArray(Len(indices), a.c, [k \in 1..Len(indices) |-> a.d[indices[k]]])

\* slice(start, end) of a sequence of length n (0-based, end exclusive,
\* cut at the end of the sequence as Python slices are).
SliceOf(seq, start, end) ==
    SubSeq(seq, start + 1, IF end > Len(seq) THEN Len(seq) ELSE end)

\* The sample indices of minibatch j of the current epoch.
BatchIndices(f) ==
    SliceOf(f.indices, f.j * net.batch_size, f.j * net.batch_size + net.batch_size)

\* Variant of BatchCount: the incomplete last minibatch is counted too.
BatchCountCeil(samples, batch_size) == (samples + batch_size - 1) \div batch_size

\* samples // batch_size
BatchCount(samples, batch_size) == samples \div batch_size

\* An exception leaves fit: the call is over and its locals are gone.
Raise(kind) ==
    /\ pc' = "idle"
    /\ fit' = NoFit
    /\ entry' = <<>>
    /\ updates' = <<>>
    /\ ret' = Returned("fit", kind)

\* lines 87-93
FitBegin ==
    /\ CanCall
    /\ ~trained
    /\ trained' = TRUE
    /\ \E n \in 0..MaxSamples, f \in FeatureCounts, epochs \in 0..MaxEpochs :
       \E Y \in LabelInputs(n) :
           fit' = [X |-> Features(n, f), Y |-> AsColumn(Y), epochs |-> epochs,
                   samples |-> n, batches |-> BatchCount(n, net.batch_size),
                   i |-> 0, j |-> 0, indices |-> <<>>, losses |-> <<>>]
    /\ pc' = "epoch"
    /\ entry' = <<net.weights, net.biases>>
    /\ updates' = <<>>
    /\ step' = "fit_begin"
    /\ UNCHANGED <<metricVars, rng, plan, dailyVars, opsVars>>
    /\ calls' = calls + 1
    /\ ret' = Returned("fit", "running")
    /\ UNCHANGED <<net, activations, z, file, saved>>

\* Variant of FitEpoch: the permutation is drawn from a generator of its
\* own, newly seeded from the system's entropy.
FitEpochOwnGenerator ==
    /\ pc = "epoch"
    /\ IF fit.i < fit.epochs
       THEN /\ \E p \in PermutationDraws(fit.samples) :
                   fit' = [fit EXCEPT !.indices = p, !.j = 0]
            /\ pc' = IF fit.batches > 0 THEN "forward" ELSE "diag"
       ELSE /\ fit' = fit
            /\ pc' = "print"
    /\ updates' = <<>>
    /\ step' = "fit_epoch"
    /\ UNCHANGED <<metricVars, rng, plan, dailyVars, opsVars>>
    /\ UNCHANGED <<net, activations, z, file, saved, entry, ret, calls, trained>>

\* lines 95-100: the head of the epoch loop and the shuffle
FitEpoch ==
    /\ pc = "epoch"
    /\ IF fit.i < fit.epochs
       THEN /\ \E p \in PermutationsAt(rng, fit.samples) :
                   fit' = [fit EXCEPT !.indices = p, !.j = 0]
            /\ pc' = IF fit.batches > 0 THEN "forward" ELSE "diag"
            /\ rng' = Advance(rng, 1)
       ELSE /\ fit' = fit
            /\ pc' = "print"
            /\ rng' = rng
    /\ updates' = <<>>
    /\ step' = "fit_epoch"
    /\ UNCHANGED <<metricVars, plan, dailyVars, opsVars>>
    /\ UNCHANGED <<net, activations, z, file, saved, entry, ret, calls, trained>>

\* Variant of FitForward: the forward pass of a minibatch is run on the
\* whole data set.
FitForwardWhole ==
    /\ pc = "forward"
    /\ LET fp == forward_prop(net, Transpose(fit.X))
       IN  IF fp.ok
           THEN /\ activations' = fp.activations
                /\ z' = fp.z
                /\ pc' = "backward"
                /\ UNCHANGED <<fit, entry, updates, ret>>
           ELSE /\ Raise("ValueError")
                /\ UNCHANGED <<activations, z>>
    /\ step' = "fit_forward"
    /\ UNCHANGED <<metricVars, rng, plan, dailyVars, opsVars>>
    /\ UNCHANGED <<net, file, saved, calls, trained>>

\* line 104: self.forward_prop(X_shuffled[batch].T)
FitForward ==
    /\ pc = "forward"
    /\ LET fp == forward_prop(net, Transpose(Take(fit.X, BatchIndices(fit))))
       IN  IF fp.ok
           THEN /\ activations' = fp.activations
                /\ z' = fp.z
                /\ pc' = "backward"
                /\ UNCHANGED <<fit, entry, updates, ret>>
           ELSE /\ Raise("ValueError")
                /\ UNCHANGED <<activations, z>>
    /\ step' = "fit_forward"
    /\ UNCHANGED <<metricVars, rng, plan, dailyVars, opsVars>>
    /\ UNCHANGED <<net, file, saved, calls, trained>>

\* Variant of FitBackward: the labels of the minibatch are sliced from Y as
\* the caller gave it, not from the shuffled copy.
FitBackwardUnshuffledLabels ==
    /\ pc = "backward"
    /\ LET inOrder == [k \in 1..fit.samples |-> k]
           rows == SliceOf(inOrder, fit.j * net.batch_size,
                           fit.j * net.batch_size + net.batch_size)
           bp == back_prop(net, activations, z, Transpose(Take(fit.Y, rows)))
       IN  /\ net' = [net EXCEPT !.weights = bp.weights, !.biases = bp.biases]
           /\ IF bp.status = "ok"
              THEN /\ updates' = Append(updates, BatchIndices(fit))
                   /\ fit' = [fit EXCEPT !.j = fit.j + 1]
                   /\ pc' = IF fit.j + 1 < fit.batches THEN "forward" ELSE "diag"
                   /\ UNCHANGED <<entry, ret>>
              ELSE Raise(bp.status)
    /\ step' = "fit_backward"
    /\ UNCHANGED <<metricVars, rng, plan, dailyVars, opsVars>>
    /\ UNCHANGED <<activations, z, file, saved, calls, trained>>

\* line 105: self.back_prop(Y_shuffled[batch].T), then the next minibatch
FitBackward ==
    /\ pc = "backward"
    /\ LET bp == back_prop(net, activations, z, Transpose(Take(fit.Y, BatchIndices(fit))))
       IN  /\ net' = [net EXCEPT !.weights = bp.weights, !.biases = bp.biases]
           /\ IF bp.status = "ok"
              THEN /\ updates' = Append(updates, BatchIndices(fit))
                   /\ fit' = [fit EXCEPT !.j = fit.j + 1]
                   /\ pc' = IF fit.j + 1 < fit.batches THEN "forward" ELSE "diag"
                   /\ UNCHANGED <<entry, ret>>
              ELSE Raise(bp.status)
    /\ step' = "fit_backward"
    /\ UNCHANGED <<metricVars, rng, plan, dailyVars, opsVars>>
    /\ UNCHANGED <<activations, z, file, saved, calls, trained>>

\* Variant of FitDiag: the pass over the whole data set is followed by a
\* gradient step on it.
FitDiagTrains ==
    /\ pc = "diag"
    /\ LET fp == forward_prop(net, Transpose(fit.X))
           bp == back_prop(net, fp.activations, fp.z, Transpose(fit.Y))
       IN  IF fp.ok
           THEN /\ activations' = fp.activations
                /\ z' = fp.z
                /\ net' = IF HiddenTransposeOK(net)
                          THEN [net EXCEPT !.weights = bp.weights, !.biases = bp.biases]
                          ELSE net
                /\ fit' = [fit EXCEPT
                              !.losses = Append(fit.losses,
                                  bce_loss(Transpose(fit.Y), fp.activations[Len(fp.activations)])),
                              !.i = fit.i + 1]
                /\ pc' = "epoch"
                /\ UNCHANGED <<entry, updates, ret>>
           ELSE /\ Raise("ValueError")
                /\ UNCHANGED <<net, activations, z>>
    /\ step' = "fit_diag"
    /\ UNCHANGED <<metricVars, rng, plan, dailyVars, opsVars>>
    /\ UNCHANGED <<file, saved, calls, trained>>

\* lines 107-111: the forward pass over the whole data set and the loss
FitDiag ==
    /\ pc = "diag"
    /\ LET fp == forward_prop(net, Transpose(fit.X))
       IN  IF fp.ok
           THEN /\ activations' = fp.activations
                /\ z' = fp.z
                /\ fit' = [fit EXCEPT
                              !.losses = Append(fit.losses,
                                  bce_loss(Transpose(fit.Y), fp.activations[Len(fp.activations)])),
                              !.i = fit.i + 1]
                /\ pc' = "epoch"
                /\ UNCHANGED <<entry, updates, ret>>
           ELSE /\ Raise("ValueError")
                /\ UNCHANGED <<activations, z>>
    /\ step' = "fit_diag"
    /\ UNCHANGED <<metricVars, rng, plan, dailyVars, opsVars>>
    /\ UNCHANGED <<net, file, saved, calls, trained>>

\* line 115: print(f"Final loss {losses[-1]}"), then the implicit return
FitPrint ==
    /\ pc = "print"
    /\ pc' = "idle"
    /\ ret' = Returned("fit", IF Len(fit.losses) = 0 THEN "IndexError" ELSE "ok")
    /\ fit' = NoFit
    /\ entry' = <<>>
    /\ updates' = <<>>
    /\ step' = "fit_print"
    /\ UNCHANGED <<metricVars, rng, plan, dailyVars, opsVars>>
    /\ UNCHANGED <<net, activations, z, file, saved, calls, trained>>

NetNext ==
    \/ Predict
    \/ ForwardProp
    \/ BackProp
    \/ Save
    \/ Load
    \/ FitBegin
    \/ FitEpoch
    \/ FitForward
    \/ FitBackward
    \/ FitDiag
    \/ FitPrint

----------------------------------------------------------------------------
(* Metrics evaluator (nn/metrics.py) *)

\* Longest label array evaluated.
MaxLabels == 3

\* astype(int): truncation toward zero.
AsInt(v) == IF v >= 0 THEN v \div One ELSE -((-v) \div One)

\* np.sum of a boolean mask: the number of positions where it holds.
CountWhere(t, p, tv, pv) ==
    Cardinality({k \in 1..Len(t) : AsInt(t[k]) = tv /\ AsInt(p[k]) = pv})

\* Variant of compute_confusion: FN is counted with the mask of FP.
compute_confusion_fn_as_fp(t, p) ==
    [TP |-> CountWhere(t, p, 1, 1),
     FP |-> CountWhere(t, p, 0, 1),
     FN |-> CountWhere(t, p, 0, 1),
     TN |-> CountWhere(t, p, 0, 0)]

\* compute_confusion(y_true, y_pred) -> TP, FP, FN, TN
compute_confusion(t, p) ==
    [TP |-> CountWhere(t, p, 1, 1),
     FP |-> CountWhere(t, p, 0, 1),
     FN |-> CountWhere(t, p, 1, 0),
     TN |-> CountWhere(t, p, 0, 0)]

\* Float division: numpy warns and gives nan where the denominator is zero.
Divide(num, den) == IF den = 0 THEN NaN ELSE RoundDiv(num, den)

\* Variant of OverEps: the + 1e-8 is dropped from the denominator.
OverEps_no_eps(num, den) == Divide(num * One * One, den * One)

\* num / (den + 1e-8) for two counts; eps is again the smallest positive value.
OverEps(num, den) == Divide(num * One * One, den * One + Eps)

\* Variant of accuracy_score: the true negatives are left out of the numerator.
accuracy_score_tp_only(TP, FP, FN, TN) == OverEps(TP, TP + FP + FN + TN)

accuracy_score(TP, FP, FN, TN) == OverEps(TP + TN, TP + FP + FN + TN)
precision_score(TP, FP) == OverEps(TP, TP + FP)
recall_score(TP, FN) == OverEps(TP, TP + FN)
f1_score(precision, recall) ==
    IF precision = NaN \/ recall = NaN
    THEN NaN
    ELSE Divide(2 * Mul(precision, recall) * One, precision + recall + Eps)

\* evaluate(y_pred, y_true)
evaluate(p, t) ==
    LET c         == compute_confusion(t, p)
        acc       == accuracy_score(c.TP, c.FP, c.FN, c.TN)
        precision == precision_score(c.TP, c.FP)
        recall    == recall_score(c.TP, c.FN)
        f1        == f1_score(precision, recall)
    IN  [accuracy |-> acc, precision |-> precision, recall |-> recall,
         f1_score |-> f1, TP |-> c.TP, FP |-> c.FP, FN |-> c.FN, TN |-> c.TN]

NoReport == [accuracy |-> 0, precision |-> 0, recall |-> 0, f1_score |-> 0,
             TP |-> -1, FP |-> -1, FN |-> -1, TN |-> -1]

\* Binary label arrays of one common length.
LabelArrays(n) == [1..n -> {0, One}]

MetricsIdle ==
    /\ y_true = <<>>
    /\ y_pred = <<>>
    /\ report = NoReport

MetricsInit ==
    /\ \E n \in 0..MaxLabels : y_true \in LabelArrays(n) /\ y_pred \in LabelArrays(n)
    /\ report = NoReport

Evaluate ==
    /\ report = NoReport
    /\ report' = evaluate(y_pred, y_true)
    /\ UNCHANGED <<y_true, y_pred>>
    /\ UNCHANGED netVars
    /\ UNCHANGED <<rng, plan, dailyVars, opsVars>>

\* A network that is constructed and left alone.
NetIdle ==
    /\ net = NewNetwork(<<2, 1>>, One, 1, 0)
    /\ activations = <<>>
    /\ z = <<>>
    /\ file = NoFile
    /\ saved = NoFile
    /\ pc = "idle"
    /\ fit = NoFit
    /\ entry = <<>>
    /\ updates = <<>>
    /\ step = "init"
    /\ ret = NoRet
    /\ calls = 0
    /\ trained = FALSE

----------------------------------------------------------------------------
(* Daily prediction automation (predict_nba/pipeline/daily_predictor.py,
   predict_nba/automation).  prediction_history and current_predictions are
   JSON lists in S3; every operation reads a list, works on its own copy and
   writes the whole list back. *)

\* Number of games ESPN knows; current_predictions is followed up to one
\* row more than that.
MaxGames == 2
MaxRows == MaxGames + 1
\* Longest list of new entries handed to append_history on its own, and
\* the length up to which prediction_history is then followed.
MaxEntries == 3
MaxHistory == MaxEntries + 1
GameIds == 1..MaxGames

\* A prediction for a game as new_predictions writes it, and the entry
\* update_predictions makes of it once the game is finished.
Prediction(g) == [gameId |-> g, team |-> "HOME", prediction |-> TRUE]
Resolved(row, home_win) ==
    [gameId |-> row.gameId, team |-> row.team, prediction |-> row.prediction,
     winner |-> home_win, prediction_correct |-> (home_win = row.prediction)]
Entries == {Resolved(Prediction(g), w) : g \in GameIds, w \in BOOLEAN}

\* {r.get("gameId") for r in rows if "gameId" in r}
IdsOf(rows) == {rows[k].gameId : k \in 1..Len(rows)}

\* [r for r in rows if r.get("gameId") not in ids]
WithoutIds(rows, ids) ==
    LET keep(r) == r.gameId \notin ids
    IN  SelectSeq(rows, keep)

\* S3Client.load_json_list(key): the stored list, or [] when the key is
\* missing or the request or the parsing fails (the exception is logged).
load_json_list(stored, ok) == IF ok THEN stored ELSE <<>>

\* S3Client.save_json_list(data, key): the list replaces the stored one; a
\* failed request is logged and leaves the stored list as it was.
save_json_list(stored, data, ok) == IF ok THEN data ELSE stored

\* _append_history, lines 164-167: existing_ids is taken from the loaded
\* list once, then every new entry whose gameId is not in it is appended.
append_history(history, new_entries) ==
    history \o WithoutIds(new_entries, IdsOf(history))

\* What update_predictions and generate_new_predictions hand back: None or
\* a list of entries.
NoneRet == [none |-> TRUE, rows |-> <<>>]
ListRet(rows) == [none |-> FALSE, rows |-> rows]

\* pc is the statement a running run_all has reached, ran the steps it has
\* made so far, response what the /update route answers.
\* The job keeps of a returned value whether it was None, [] or entries.
Kind(value) ==
    IF value.none THEN "None" ELSE IF value.rows = <<>> THEN "[]" ELSE "rows"

NoJob == [pc |-> "idle", op |-> "none", status |-> "none", ran |-> <<>>,
          updated |-> "None", created |-> "None", response |-> "none"]
NoLedger == [removed |-> {}, resolved |-> {}, again |-> FALSE]
DailyIdle ==
    /\ store = [history |-> <<>>, current |-> <<>>]
    /\ job = NoJob
    /\ espn = [g \in GameIds |-> "none"]
    /\ ledger = NoLedger

coreVars == <<netVars, metricVars, rng, plan>>

\* Lists of new entries a caller may pass, repeated gameIds included.
EntryLists == UNION {[1..n -> Entries] : n \in 0..MaxEntries}

\* _append_history as a whole: the prediction_history it leaves in S3.  It
\* returns at once without a client or without new entries; the read and
\* the write may each fail.
AppendToStored(stored, new_entries, client, readOK, writeOK) ==
    IF ~client \/ new_entries = <<>>
    THEN stored
    ELSE save_json_list(stored,
             append_history(load_json_list(stored, readOK), new_entries),
             writeOK)

\* DailyPredictor._append_history(new_entries) called on its own.
AppendHistory ==
    /\ job.pc = "idle"
    /\ \E h \in {AppendToStored(store.history, e, c, r, w) :
                    e \in {l \in EntryLists :
                              Len(store.history) + Len(l) <= MaxHistory},
                    c \in BOOLEAN, r \in BOOLEAN, w \in BOOLEAN} :
         store' = [store EXCEPT !.history = h]
    /\ job' = [NoJob EXCEPT !.op = "append_history", !.status = "returned"]
    /\ UNCHANGED <<coreVars, opsVars, espn, ledger>>

\* A prediction_history whose gameIds are pairwise distinct.
DistinctHistories ==
    {<<>>}
    \cup {<<a>> : a \in Entries}
    \cup {<<p[1], p[2]>> :
             p \in {q \in Entries \X Entries : q[1].gameId # q[2].gameId}}

\* What ESPN's scoreboard says: games not yet started and finished games.
PreGame == {g \in GameIds : espn[g] = "pre"}
Finished == {g \in GameIds : espn[g] = "post"}

\* The final score of a game: whether the home team won it.
HomeWon(g) == g % 2 = 1

\* A game is put on the scoreboard, or a game on it is played.
EspnAdvance ==
    /\ \E g \in GameIds :
         \/ /\ espn[g] = "none"
            /\ espn' = [espn EXCEPT ![g] = "pre"]
         \/ /\ espn[g] = "pre"
            /\ espn' = [espn EXCEPT ![g] = "post"]
    /\ UNCHANGED <<coreVars, opsVars, store, job, ledger>>

\* The outcome of every request of one call: the reads and writes of the
\* two S3 keys and the ESPN request, TRUE when the request succeeds.
UpdateOutcomes ==
    [readCurrent : BOOLEAN, readHistory : BOOLEAN, writeHistory : BOOLEAN,
     writeCurrent : BOOLEAN, espn : BOOLEAN]
GenerateOutcomes ==
    [readCurrent : BOOLEAN, writeCurrent : BOOLEAN, espn : BOOLEAN]

\* The game ids of a list, the NO_GAMES_TODAY placeholder left out.
GameIdsIn(rows) == IdsOf(rows) \cap GameIds

\* The ledger after a call that leaves newCurrent in S3, resolved the
\* given entries and made the given predictions.
Ledger(newCurrent, resolvedRows, newRows) ==
    [removed  |-> ledger.removed
                  \cup (GameIdsIn(store.current) \ GameIdsIn(newCurrent)),
     resolved |-> ledger.resolved \cup IdsOf(resolvedRows),
     again    |-> \/ ledger.again
                  \/ GameIdsIn(newRows) \cap GameIdsIn(store.current) # {}]

\* update_predictions, lines 250-283: the entries made of the rows whose
\* game is among the finished games of the scoreboard of the row's date.
ResolveRows(rows, scoreboard) ==
    LET done(r) == r.gameId \in GameIds /\ scoreboard[r.gameId] = "post"
        found == SelectSeq(rows, done)
    IN  [k \in 1..Len(found) |-> Resolved(found[k], HomeWon(found[k].gameId))]

\* DailyPredictor.update_predictions with a working S3 client: the bucket
\* it leaves and the value it returns.
update_predictions(s, scoreboard, o) ==
    LET rows == load_json_list(s.current, o.readCurrent)
        updated_rows == ResolveRows(rows, scoreboard)
        history == load_json_list(s.history, o.readHistory)
        remaining_rows == WithoutIds(rows, IdsOf(updated_rows))
    IN  IF rows = <<>>
        THEN [store |-> s, ret |-> ListRet(<<>>)]
        ELSE IF ~o.espn
        THEN [store |-> s, ret |-> NoneRet]
        ELSE IF updated_rows = <<>>
        THEN [store |-> s, ret |-> ListRet(<<>>)]
        ELSE [store |->
                 [history |-> save_json_list(s.history,
                                  append_history(history, updated_rows),
                                  o.writeHistory),
                  current |-> save_json_list(s.current, remaining_rows,
                                  o.writeCurrent)],
              ret |-> ListRet(updated_rows)]

\* The predictions made for a set of events, in the scoreboard's order.
RECURSIVE RowsFor(_)
RowsFor(ids) ==
    IF ids = {}
    THEN <<>>
    ELSE LET g == CHOOSE x \in ids : \A y \in ids : x <= y
         IN  <<Prediction(g)>> \o RowsFor(ids \ {g})

\* DailyPredictor.new_predictions with a working S3 client; events are the
\* pre-game events of today for which a prediction could be made.
new_predictions(s, events, o) ==
    LET existing == load_json_list(s.current, o.readCurrent)
        new_rows == RowsFor(events \ IdsOf(existing))
    IN  IF ~o.espn
        THEN [store |-> s, ret |-> NoneRet]
        ELSE IF new_rows = <<>>
        THEN [store |-> s, ret |-> ListRet(<<>>)]
        ELSE [store |->
                 [s EXCEPT !.current =
                     save_json_list(s.current, existing \o new_rows,
                                    o.writeCurrent)],
              ret |-> ListRet(new_rows)]

\* A call of DailyPredictor.update_predictions.  Without an S3 client the
\* CustomException of line 184 is built outside an except block, where
\* error_message_detail finds no traceback and raises AttributeError.
UpdatePredictions ==
    /\ job.pc = "idle"
    /\ \/ /\ job' = [NoJob EXCEPT !.op = "update_predictions",
                                      !.status = "raised"]
          /\ UNCHANGED <<store, ledger>>
       \/ \E r \in {update_predictions(store, espn, o) : o \in UpdateOutcomes} :
                  /\ store' = r.store
                  /\ job' = [NoJob EXCEPT !.op = "update_predictions",
                                          !.status = "returned",
                                          !.updated = Kind(r.ret)]
                  /\ ledger' = Ledger(r.store.current, r.ret.rows, <<>>)
    /\ UNCHANGED <<coreVars, opsVars, espn>>

\* A call of DailyPredictor.new_predictions.
NewPredictions ==
    /\ job.pc = "idle"
    /\ \/ /\ job' = [NoJob EXCEPT !.op = "new_predictions",
                                      !.status = "raised"]
          /\ UNCHANGED <<store, ledger>>
       \/ \E r \in {new_predictions(store, events, o) :
                         events \in SUBSET PreGame, o \in GenerateOutcomes} :
                  /\ store' = r.store
                  /\ job' = [NoJob EXCEPT !.op = "new_predictions",
                                          !.status = "returned",
                                          !.created = Kind(r.ret)]
                  /\ ledger' = Ledger(r.store.current, <<>>, r.ret.rows)
    /\ UNCHANGED <<coreVars, opsVars, espn>>

----------------------------------------------------------------------------
(* The automation package: daily_update.update_predictions,
   daily_generate.generate_new_predictions and DailyPredictor.run_all of
   predictor_runner.py.  They reach S3 through HistoryManager, whose reads
   and writes go through S3Client.download and S3Client.upload. *)

\* The row generate_new_predictions stores on a day without games.
Placeholder == [gameId |-> 0, team |-> "NO_GAMES_TODAY", prediction |-> FALSE]

\* S3Client.download(key) and S3Client.upload(key, data, content_type): the
\* stored list is handed over or replaced, or the request fails with an
\* exception, which HistoryManager hands on.
download(stored, ok) == IF ok THEN [raised |-> FALSE, data |-> stored]
                              ELSE [raised |-> TRUE, data |-> <<>>]
upload(stored, data, ok) == IF ok THEN [raised |-> FALSE, data |-> data]
                                  ELSE [raised |-> TRUE, data |-> stored]

DailyUpdateOutcomes ==
    [readCurrent : BOOLEAN, readHistory : BOOLEAN, writeHistory : BOOLEAN,
     writeCurrent : BOOLEAN, espn : BOOLEAN]
DailyGenerateOutcomes ==
    [readCurrent : BOOLEAN, readAgain : BOOLEAN, writeCurrent : BOOLEAN,
     espn : BOOLEAN, listed : BOOLEAN]

\* daily_update.update_predictions with an S3 client.  Every exception
\* inside the try block ends the call with None; what was written before
\* stays written.
daily_update(s, scoreboard, o) ==
    LET loaded == download(s.current, o.readCurrent)
        rows == loaded.data
        updated_rows == ResolveRows(rows, scoreboard)
        history == download(s.history, o.readHistory)
        appended == upload(s.history,
                           append_history(history.data, updated_rows),
                           o.writeHistory)
        remaining_rows == WithoutIds(rows, IdsOf(updated_rows))
        cleared == upload(s.current, <<>>, o.writeCurrent)
        saved_rows == upload(s.current, remaining_rows, o.writeCurrent)
    IN  IF loaded.raised
        THEN [store |-> s, ret |-> NoneRet]
        ELSE IF rows = <<>>
        THEN [store |-> s, ret |-> ListRet(<<>>)]
        ELSE IF rows[1].team = "NO_GAMES_TODAY"
        THEN [store |-> [s EXCEPT !.current = cleared.data],
              ret |-> IF cleared.raised THEN NoneRet ELSE ListRet(<<>>)]
        ELSE IF ~o.espn
        THEN [store |-> s, ret |-> NoneRet]
        ELSE IF updated_rows = <<>>
        THEN [store |-> s, ret |-> ListRet(<<>>)]
        ELSE IF history.raised \/ appended.raised
        THEN [store |-> s, ret |-> NoneRet]
        ELSE [store |-> [history |-> appended.data,
                         current |-> saved_rows.data],
              ret |-> IF saved_rows.raised THEN NoneRet
                                           ELSE ListRet(updated_rows)]

\* daily_generate.generate_new_predictions with an S3 client.  A failed
\* first read is taken for an empty list by the bare except of line 93.
daily_generate(s, events, o) ==
    LET loaded == download(s.current, o.readCurrent)
        existing == IF loaded.raised THEN <<>> ELSE loaded.data
        new_rows == RowsFor(events \ IdsOf(existing))
        again == download(s.current, o.readAgain)
        with_placeholder == upload(s.current, again.data \o <<Placeholder>>,
                                   o.writeCurrent)
        combined == upload(s.current, existing \o new_rows, o.writeCurrent)
    IN  IF ~o.espn
        THEN [store |-> s, ret |-> NoneRet]
        ELSE IF ~o.listed
        THEN [store |-> s, ret |-> ListRet(<<>>)]
        ELSE IF new_rows = <<>> /\ existing = <<>>
        THEN IF again.raised
             THEN [store |-> s, ret |-> NoneRet]
             ELSE [store |-> [s EXCEPT !.current = with_placeholder.data],
                   ret |-> IF with_placeholder.raised
                           THEN NoneRet ELSE ListRet(<<Placeholder>>)]
        ELSE [store |-> [s EXCEPT !.current = combined.data],
              ret |-> IF combined.raised THEN NoneRet ELSE ListRet(new_rows)]

\* What the /update route answers for the way run_all ended.
Response(status) ==
    IF status = "raised" THEN "500 Daily update job failed"
    ELSE IF status = "returned" THEN "Daily update complete."
    ELSE "none"

\* One call of update_predictions: returned is the job when the call has
\* returned, which keeps the kind of the value if keep says so.  Without an
\* S3 client the CustomException of line 33 is built outside an except
\* block and raises AttributeError, which nothing in run_all catches;
\* raised is the job then.
UpdateCall(returned, keep, raised) ==
    \/ /\ job' = raised
       /\ UNCHANGED <<store, ledger>>
    \/ \E r \in {daily_update(store, espn, o) : o \in DailyUpdateOutcomes} :
         /\ store' = r.store
         /\ job' = IF keep THEN [returned EXCEPT !.updated = Kind(r.ret)]
                           ELSE returned
         /\ ledger' = Ledger(r.store.current, r.ret.rows, <<>>)

\* One call of generate_new_predictions.
GenerateCall(returned, keep, raised) ==
    \/ /\ job' = raised
       /\ UNCHANGED <<store, ledger>>
    \/ \E r \in {daily_generate(store, events, o) :
                    events \in SUBSET PreGame, o \in DailyGenerateOutcomes} :
         /\ Len(r.store.current) <= MaxRows
         /\ store' = r.store
         /\ job' = IF keep THEN [returned EXCEPT !.created = Kind(r.ret)]
                           ELSE returned
         /\ ledger' = Ledger(r.store.current, <<>>, r.ret.rows)

\* DailyPredictor.run_update_only() and run_generate_only() called on
\* their own; the caller drops what they return.
RunUpdateOnly ==
    /\ job.pc = "idle"
    /\ UpdateCall(NoJob, FALSE, NoJob)
    /\ UNCHANGED <<coreVars, opsVars, espn>>
RunGenerateOnly ==
    /\ job.pc = "idle"
    /\ GenerateCall(NoJob, FALSE, NoJob)
    /\ UNCHANGED <<coreVars, opsVars, espn>>

\* The job of a run_all that is at its second statement, that has
\* returned after the steps in ran, and that ended with an exception; the
\* /update route then has its answer to give.
AtGenerate == [NoJob EXCEPT !.op = "run_all", !.pc = "generate",
                            !.status = "running", !.ran = <<"update">>]
Done(before, ran) == [before EXCEPT !.op = "run_all", !.pc = "respond",
                                    !.status = "returned", !.ran = ran,
                                    !.response = Response("returned")]
Failed(before) == [before EXCEPT !.op = "run_all", !.pc = "respond",
                                 !.status = "raised",
                                 !.response = Response("raised")]

\* Variant of run_all's first statement: when the update returns None the
\* job returns at once.
RunAllUpdateStopsOnNone ==
    /\ job.pc = "idle"
    /\ \/ /\ UpdateCall(AtGenerate, TRUE, Failed(NoJob))
          /\ job'.updated # "None"
       \/ /\ UpdateCall(Done(NoJob, <<"update">>), TRUE, Failed(NoJob))
          /\ job'.updated = "None"
    /\ UNCHANGED <<coreVars, opsVars, espn>>

\* run_all, line 38: updated = self.run_update_only().
RunAllUpdate ==
    /\ job.pc = "idle"
    /\ UpdateCall(AtGenerate, TRUE, Failed(NoJob))
    /\ UNCHANGED <<coreVars, opsVars, espn>>

\* run_all, lines 39-40: created = self.run_generate_only(), and the
\* return of both values.
RunAllGenerate ==
    /\ job.pc = "generate"
    /\ GenerateCall(Done(job, <<"update", "generate">>), TRUE, Failed(job))
    /\ UNCHANGED <<coreVars, opsVars, espn>>

\* update_daily_stats, lines 29-37: the route gives its answer and drops
\* what run_all returned.
Respond ==
    /\ job.pc = "respond"
    /\ job' = NoJob
    /\ UNCHANGED <<coreVars, opsVars, store, espn, ledger>>

----------------------------------------------------------------------------
(* Model training and bootstrap (predict_nba/pipeline/model_trainer.py,
   pipeline/bootstrap_model.py, utils/wait_for_model.py).  The bucket is the
   set of keys that hold an object; what the objects hold is left out. *)

MODEL_KEY == "models/prediction_model.skops"
TEAMS_KEY == "teams/teams.json"
ScalerKey == "models/scaler.skops"
NetworkKey == "models/model.npz"
DataKey == "clean/training_data_clean.csv"
Keys == {MODEL_KEY, TEAMS_KEY, ScalerKey, NetworkKey, DataKey}

MaxFeatures == 2
MaxTrains == 2
DefaultLayers == <<63, 32, 1>>
LayerLists == {DefaultLayers, <<1>>}

\* model_trainer.S3Client.upload_bytes: a failed put_object is logged and
\* swallowed.
upload_bytes(keys, key, ok) == IF ok THEN keys \cup {key} ELSE keys

\* model_trainer.S3Client.download_csv: None when get_object fails.
download_csv(keys, key, ok) == ok /\ key \in keys

\* ModelTrainer.__init__: client is whether S3Client() could be made.
ModelTrainer(layers, client) ==
    [made |-> TRUE, client |-> client, given |-> layers, layers |-> layers,
     calls |-> 0, input_dim |-> 0, built |-> <<>>, returned |-> "none"]

\* ModelTrainer._initialize_model for model_type "neural_network": the
\* layers the NeuralNetwork is constructed with.
initialize_model(self) == self.layers

\* What a train_model call may meet: the download, the columns of the data
\* (available is the number of feature columns found), whether fitting and
\* evaluating go through, and the two uploads.
TrainOutcomes ==
    [download : BOOLEAN, data : {"ok", "no TeamWin"}, available : 1..MaxFeatures,
     fit : BOOLEAN, save : BOOLEAN, uploadScaler : BOOLEAN, uploadModel : BOOLEAN]

Began(self) == [self EXCEPT !.calls = @ + 1, !.built = <<>>, !.input_dim = 0]

\* ModelTrainer.train_model(data_key, save).  Without a client the
\* CustomException of line 133 is built outside an except block and raises
\* AttributeError; every other failure returns (None, None).
train_model(self, keys, o) ==
    IF ~self.client
    THEN [trainer |-> [Began(self) EXCEPT !.returned = "raised"], bucket |-> keys,
          raised |-> TRUE]
    ELSE IF ~download_csv(keys, DataKey, o.download) \/ o.data # "ok"
    THEN [trainer |-> [Began(self) EXCEPT !.returned = "None"], bucket |-> keys,
          raised |-> FALSE]
    ELSE LET input_dim == o.available
             layers == <<input_dim>> \o self.layers
             built == [Began(self) EXCEPT !.layers = layers, !.input_dim = input_dim]
             model == [built EXCEPT !.built = initialize_model(built)]
         IN  IF ~o.fit
             THEN [trainer |-> [model EXCEPT !.returned = "None"], bucket |-> keys,
                   raised |-> FALSE]
             ELSE [trainer |-> [model EXCEPT !.returned = "model"],
                   bucket |-> IF o.save
                              THEN upload_bytes(upload_bytes(keys, ScalerKey, o.uploadScaler),
                                                NetworkKey, o.uploadModel)
                              ELSE keys,
                   raised |-> FALSE]

NewModelTrainer ==
    /\ \E layers \in LayerLists, client \in BOOLEAN :
           trainer' = ModelTrainer(layers, client)
    /\ UNCHANGED <<coreVars, dailyVars, bucket, boot, runner>>

TrainModel ==
    /\ trainer.made
    /\ trainer.calls < MaxTrains
    /\ \E r \in {train_model(trainer, bucket, o) : o \in TrainOutcomes} :
           /\ trainer' = r.trainer
           /\ bucket' = r.bucket
    /\ UNCHANGED <<coreVars, dailyVars, boot, runner>>

\* bootstrap_model.model_exists: head_object answers, or fails with another
\* error than 404, which is raised.
model_exists(keys) == MODEL_KEY \in keys

\* ensure_teams_json: the keys afterwards.  seen is whether head_object
\* answered (any failure of it counts as a missing file), fetched whether
\* the download from pbpstats and the upload went through.
ensure_teams_json(keys, seen, fetched) ==
    IF TEAMS_KEY \in keys /\ seen THEN [raised |-> FALSE, bucket |-> keys]
    ELSE IF fetched THEN [raised |-> FALSE, bucket |-> keys \cup {TEAMS_KEY}]
    ELSE [raised |-> TRUE, bucket |-> keys]

BootstrapOutcomes ==
    [client : BOOLEAN, head : BOOLEAN, seen : BOOLEAN, fetched : BOOLEAN,
     prepared : {"raised", "uploaded", "nothing"}, s3 : BOOLEAN,
     train : {o \in TrainOutcomes : o.save}]

\* bootstrap_model, lines 80-113: every exception is raised again as
\* CustomException.  prepared is what collect_training_data and
\* clean_training_data did.
bootstrap_model(keys, o) ==
    LET stop(how, k) == [last |-> how, bucket |-> k, trained |-> FALSE, trainer |-> trainer]
    IN  IF ~o.client \/ ~o.head THEN stop("raised", keys)
        ELSE IF model_exists(keys) THEN stop("skipped", keys)
        ELSE LET teams == ensure_teams_json(keys, o.seen, o.fetched)
                 data == IF o.prepared = "uploaded" THEN teams.bucket \cup {DataKey}
                         ELSE teams.bucket
                 t == train_model(ModelTrainer(DefaultLayers, o.s3), data, o.train)
             IN  IF teams.raised THEN stop("raised", teams.bucket)
                 ELSE IF o.prepared = "raised" THEN stop("raised", teams.bucket)
                 ELSE [last |-> IF t.raised THEN "raised" ELSE "completed",
                       bucket |-> t.bucket, trained |-> TRUE, trainer |-> t.trainer]

MaxBoots == 2
BootstrapModel ==
    /\ boot.calls < MaxBoots
    /\ \E r \in {bootstrap_model(bucket, o) : o \in BootstrapOutcomes} :
           /\ bucket' = r.bucket
           /\ trainer' = r.trainer
           /\ boot' = [boot EXCEPT !.calls = @ + 1, !.last = r.last,
                                    !.retrained = @ \/ (r.trained /\ boot.last
                                                          \in {"completed", "skipped"})]
    /\ UNCHANGED <<coreVars, dailyVars, runner>>

\* wait_for_required_files, lines 12-34: one pass of the loop over both keys;
\* a head_object that fails for any reason counts as not ready.
StartWaiting ==
    /\ boot.wait = "idle"
    /\ boot' = [boot EXCEPT !.wait = "waiting"]
    /\ UNCHANGED <<coreVars, dailyVars, bucket, trainer, runner>>

WaitPoll ==
    /\ boot.wait = "waiting"
    /\ \E model \in BOOLEAN, teams \in BOOLEAN :
           LET ready == /\ model /\ MODEL_KEY \in bucket
                        /\ teams /\ TEAMS_KEY \in bucket
           IN  boot' = [boot EXCEPT !.wait = IF ready THEN "returned" ELSE "waiting"]
    /\ UNCHANGED <<coreVars, dailyVars, bucket, trainer, runner>>

----------------------------------------------------------------------------
(* The automation runner (predict_nba/automation/automation_runner.py).
   Instants are counted in ticks since 00:00 UTC of the first day, Second
   ticks to the second, so that datetime.now() has a fraction of a second
   and int() has something to cut.  Helsinki is at UTC+2 (EET) or, in
   summer, at UTC+3 (EEST); datetime.now(HELSINKI_TZ) carries the offset in
   force at that instant, and replace() and + timedelta keep that offset. *)

Second == 4
Minute == 60 * Second
Hour == 60 * Minute
Day == 24 * Hour
RUN_HOUR == 12
RUN_MINUTE == 0
RetryPause == 60
EET == 2 * Hour
EEST == 3 * Hour

\* The night the clocks change, 01:00 UTC of the second day, if they do.
Seasons == {"none", "spring", "autumn"}
Change == Day + Hour
utcoffset(t, dst) ==
    CASE dst = "none"   -> EET
      [] dst = "spring" -> IF t < Change THEN EET ELSE EEST
      [] dst = "autumn" -> IF t < Change THEN EEST ELSE EET

\* What a clock on the wall in Helsinki shows at instant t.
WallClock(t, dst) == t + utcoffset(t, dst)
LocalDate(t, dst) == WallClock(t, dst) \div Day
TimeOfDay(t, dst) == WallClock(t, dst) % Day
Noon == RUN_HOUR * Hour + RUN_MINUTE * Minute

Max(a, b) == IF a >= b THEN a ELSE b

\* seconds_until_next_noon, lines 27-36, called at instant t.  now and
\* today_noon are wall-clock readings with the offset of t; their difference
\* is cut to whole seconds.
seconds_until_next_noon(t, dst) ==
    LET now == WallClock(t, dst)
        today_noon == (now \div Day) * Day + Noon
        target == IF now >= today_noon THEN today_noon + Day ELSE today_noon
        delta == target - now
    IN  Max(1, delta \div Second)

MaxDays == 3
Horizon == MaxDays * Day
StartTimes == {7 * Hour + k : k \in 0..(Second - 1)} \cup {10 * Hour, 20 * Hour + 1}
Durations == {1, 3 * Second, 2 * Hour}

\* run_daily_automation, line 40.
StartRunner ==
    /\ runner.pc = "off"
    /\ \E dst \in Seasons, t \in StartTimes :
           runner' = [pc |-> "first", dst |-> dst, now |-> t, slept |-> 0,
                      date |-> -1, twice |-> FALSE]
    /\ UNCHANGED <<coreVars, dailyVars, bucket, trainer, boot>>

\* Lines 42-49: the first run; run_all returns or raises after d ticks.
FirstRun ==
    /\ runner.pc = "first"
    /\ \E d \in Durations, raised \in BOOLEAN :
           runner' = [runner EXCEPT !.pc = "sleep", !.now = @ + d]
    /\ UNCHANGED <<coreVars, dailyVars, bucket, trainer, boot>>

\* Lines 54-56: the sleep until the computed instant.
Sleep ==
    /\ runner.pc = "sleep"
    /\ runner.now < Horizon
    /\ LET sleep_seconds == seconds_until_next_noon(runner.now, runner.dst)
       IN  runner' = [runner EXCEPT !.pc = "run", !.slept = sleep_seconds,
                                    !.now = @ + sleep_seconds * Second]
    /\ UNCHANGED <<coreVars, dailyVars, bucket, trainer, boot>>

\* Lines 58-64: the scheduled run; after an exception the loop pauses 60
\* seconds and goes on.  date is the Helsinki date of the last scheduled run,
\* twice whether two scheduled runs were started on one Helsinki date.
ScheduledRun ==
    /\ runner.pc = "run"
    /\ \E d \in Durations, raised \in BOOLEAN :
           LET today == LocalDate(runner.now, runner.dst)
           IN  runner' = [runner EXCEPT
                              !.pc = "sleep",
                              !.now = @ + d + (IF raised THEN RetryPause * Second ELSE 0),
                              !.date = today,
                              !.twice = @ \/ today = runner.date]
    /\ UNCHANGED <<coreVars, dailyVars, bucket, trainer, boot>>

----------------------------------------------------------------------------
(* Specifications *)

\* The network and its artifact.
NoScript == rng = Unseeded /\ plan = NoPlan /\ DailyIdle /\ OpsIdle
Init == NetInit /\ MetricsIdle /\ NoScript
Next == NetNext
Spec == Init /\ [][Next]_vars

\* A caller that finds an artifact it did not write: one that save_model
\* wrote for some Network, whole, with one field missing, or with the layers
\* of another architecture.
WrittenArtifacts ==
    {a \in {save_model(NewNetwork(l, lr, b, s)) :
                l \in Archs, lr \in LearningRates, b \in BatchSizes, s \in Seeds} :
        a.status = "ok"}
DropField(a, f) == [a EXCEPT !.data.fields = @ \ {f}]
Relabel(a, layers) == [a EXCEPT !.data.layers = layers]
FoundArtifacts ==
    WrittenArtifacts
    \cup {DropField(a, f) : a \in WrittenArtifacts, f \in ArtifactFields}
    \cup {Relabel(a, l) : a \in WrittenArtifacts, l \in Archs}

InitArtifact ==
    /\ net = NewNetwork(<<2, 1>>, One, 1, 0)
    /\ activations = <<>>
    /\ z = <<>>
    /\ file \in FoundArtifacts
    /\ saved = NoFile
    /\ pc = "idle"
    /\ fit = NoFit
    /\ entry = <<>>
    /\ updates = <<>>
    /\ step = "init"
    /\ ret = NoRet
    /\ calls = 0
    /\ trained = FALSE
    /\ MetricsIdle
    /\ NoScript
NextArtifact == Load \/ Predict
SpecArtifact == InitArtifact /\ [][NextArtifact]_vars

\* Training with an unstable learning rate: the largest float.
UnstableLearningRates == {MaxFloat}
InitUnstable ==
    /\ \E layers \in Archs, lr \in UnstableLearningRates, b \in BatchSizes, seed \in Seeds :
           net = NewNetwork(layers, lr, b, seed)
    /\ activations = <<>>
    /\ z = <<>>
    /\ file = NoFile
    /\ saved = NoFile
    /\ pc = "idle"
    /\ fit = NoFit
    /\ entry = <<>>
    /\ updates = <<>>
    /\ step = "init"
    /\ ret = NoRet
    /\ calls = 0
    /\ trained = FALSE
    /\ MetricsIdle
    /\ NoScript
NextUnstable ==
    \/ FitBegin
    \/ FitEpoch
    \/ FitForward
    \/ FitBackward
    \/ FitDiag
    \/ FitPrint
    \/ Predict
SpecUnstable == InitUnstable /\ [][NextUnstable]_vars

\* A script run twice: np.random.seed(seed), NeuralNetwork(layers, lr,
\* batch_size), fit(X, Y, epochs).  plan holds its arguments, which run it
\* is in, and what the first run ended with.
GeneratorSeeds == {0, 1, 2}
Construct(p) == NewNetwork(p.layers, p.lr, p.batch_size, p.seed)
InitRepro ==
    /\ \E layers \in Archs, lr \in LearningRates, b \in BatchSizes, seed \in GeneratorSeeds,
          n \in 0..MaxSamples, epochs \in 0..MaxEpochs :
       \E Y \in LabelInputs(n) :
           plan = [run |-> 1, layers |-> layers, lr |-> lr, batch_size |-> b,
                   seed |-> seed, X |-> Features(n, layers[1]), Y |-> AsColumn(Y),
                   epochs |-> epochs,
                   first |-> [net |-> NewNetwork(layers, lr, b, seed), ret |-> NoRet]]
    /\ net = Construct(plan)
    /\ rng = Advance(plan.seed, Len(plan.layers) - 1)
    /\ activations = <<>>
    /\ z = <<>>
    /\ file = NoFile
    /\ saved = NoFile
    /\ pc = "idle"
    /\ fit = NoFit
    /\ entry = <<>>
    /\ updates = <<>>
    /\ step = "init"
    /\ ret = NoRet
    /\ calls = 0
    /\ trained = FALSE
    /\ MetricsIdle
    /\ DailyIdle
    /\ OpsIdle

\* model.fit(X, Y, epochs) with the arguments of the script
FitBeginPlanned ==
    /\ FitBegin
    /\ fit'.X = plan.X
    /\ fit'.Y = plan.Y
    /\ fit'.epochs = plan.epochs

\* The second run: the generator is seeded as before and the Network is
\* constructed anew; what the first run ended with is kept for comparison.
Rerun ==
    /\ plan.run = 1
    /\ pc = "idle"
    /\ ret.op = "fit"
    /\ plan' = [plan EXCEPT !.run = 2, !.first = [net |-> net, ret |-> ret]]
    /\ net' = Construct(plan)
    /\ rng' = Advance(plan.seed, Len(plan.layers) - 1)
    /\ activations' = <<>>
    /\ z' = <<>>
    /\ pc' = "idle"
    /\ fit' = NoFit
    /\ entry' = <<>>
    /\ updates' = <<>>
    /\ step' = "init"
    /\ ret' = NoRet
    /\ calls' = 0
    /\ trained' = FALSE
    /\ UNCHANGED <<file, saved>>
    /\ UNCHANGED <<metricVars, dailyVars, opsVars>>

NextRepro ==
    \/ FitBeginPlanned
    \/ FitEpoch
    \/ FitForward
    \/ FitBackward
    \/ FitDiag
    \/ FitPrint
    \/ Rerun
SpecRepro == InitRepro /\ [][NextRepro]_vars

\* prediction_history under append_history calls.
InitHistory ==
    /\ NetIdle
    /\ MetricsIdle
    /\ rng = Unseeded
    /\ plan = NoPlan
    /\ \E h \in DistinctHistories : store = [history |-> h, current |-> <<>>]
    /\ job = NoJob
    /\ espn = [g \in GameIds |-> "post"]
    /\ ledger = NoLedger
    /\ OpsIdle
NextHistory == AppendHistory
SpecHistory == InitHistory /\ [][NextHistory]_vars

\* The daily job of pipeline/daily_predictor.py while games are scheduled
\* and played.
InitDaily ==
    /\ NetIdle
    /\ MetricsIdle
    /\ rng = Unseeded
    /\ plan = NoPlan
    /\ DailyIdle
    /\ OpsIdle
NextDaily ==
    \/ EspnAdvance
    \/ UpdatePredictions
    \/ NewPredictions
SpecDaily == InitDaily /\ [][NextDaily]_vars

\* The automation package: single calls, and the jobs the /update route
\* starts one after the other.
NextAutomation ==
    \/ EspnAdvance
    \/ RunUpdateOnly
    \/ RunGenerateOnly
    \/ RunAllUpdate
    \/ RunAllGenerate
    \/ Respond
SpecAutomation == InitDaily /\ [][NextAutomation]_vars

\* Training and bootstrap against a bucket that holds any of the keys.
InitTraining ==
    /\ NetIdle
    /\ MetricsIdle
    /\ rng = Unseeded
    /\ plan = NoPlan
    /\ DailyIdle
    /\ bucket \in SUBSET Keys
    /\ trainer = NoTrainer
    /\ boot = NoBoot
    /\ runner = NoRunner
NextTraining ==
    \/ NewModelTrainer
    \/ TrainModel
    \/ BootstrapModel
    \/ StartWaiting
    \/ WaitPoll
SpecTraining == InitTraining /\ [][NextTraining]_vars

\* The automation runner from its start, through a change of the clocks
\* or none.
NextRunner ==
    \/ StartRunner
    \/ FirstRun
    \/ Sleep
    \/ ScheduledRun
SpecRunner == InitDaily /\ [][NextRunner]_vars

\* The metrics evaluator on its own.
InitMetrics == NetIdle /\ MetricsInit /\ NoScript
NextMetrics == Evaluate
SpecMetrics == InitMetrics /\ [][NextMetrics]_vars

----------------------------------------------------------------------------
(* Properties *)

\* The parameters a Network holds.
Params(n) == <<n.weights, n.biases>>

\* C1: load_model(save_model(n)) returns a Network whose layers, lr and
\* batch_size equal n's and whose weights[i] and biases[i] equal n's element
\* for element, with the same shapes and in the same structure (a list of
\* arrays).
RoundTripIdentical ==
    (step = "load_model" /\ ret.status = "ok") => net = saved

\* C2: every pair predict returns has result in {0, 1}, result 1 exactly
\* when the sigmoid output it stands for is at least 0.5, and confidence
\* equal to that output for result 1 and to 1 - output for result 0, so
\* that the confidence lies in [0.5, 1.0].
PredictThreshold ==
    (step = "predict" /\ ret.status = "ok") =>
        LET probs == Flatten(activations[Len(activations)])
        IN  /\ Len(ret.items) = Len(probs)
            /\ \A k \in 1..Len(probs) :
                 /\ ret.items[k].result \in {0, 1}
                 /\ ret.items[k].result = 1 <=> 2 * probs[k] >= One
                 /\ ret.items[k].confidence =
                        IF ret.items[k].result = 1 THEN probs[k] ELSE One - probs[k]
                 /\ 2 * ret.items[k].confidence >= One
                 /\ ret.items[k].confidence <= One

\* C2 witness: one predict call returned both a result 1 and a result 0.
PredictBothClasses ==
    /\ step = "predict"
    /\ ret.status = "ok"
    /\ \E k, l \in 1..Len(ret.items) :
           ret.items[k].result = 1 /\ ret.items[l].result = 0

\* Number of input rows of the last successful predict: the columns of the
\* retained input activation.
PredictedRows == activations[1].c

HasShape(a, r, c) ==
    /\ a.r = r
    /\ a.c = c
    /\ Len(a.d) = r
    /\ \A k \in 1..r : Len(a.d[k]) = c

ShapeInvariant ==
    /\ Len(net.layers) >= 2
    /\ Len(net.weights) = Len(net.layers) - 1
    /\ Len(net.biases) = Len(net.layers) - 1
    /\ \A k \in 1..(Len(net.layers) - 1) :
           /\ HasShape(net.weights[k], net.layers[k + 1], net.layers[k])
           /\ HasShape(net.biases[k], net.layers[k + 1], 1)

\* C4 witness: a trained Network was saved and loaded again.
TrainedSavedLoaded ==
    /\ trained
    /\ step = "load_model"
    /\ ret.status = "ok"
    /\ Params(saved) # Params(NewNetwork(saved.layers, saved.lr, saved.batch_size, 0))
    /\ Params(saved) # Params(NewNetwork(saved.layers, saved.lr, saved.batch_size, 1))

\* C5: a forward pass on an input of shape (layers[0], n) leaves one
\* activation per layer, the input first and the last of shape
\* (layers[-1], n), and one pre-activation per layer transition.
ForwardShapes ==
    activations # <<>> =>
        /\ Len(activations) = Len(net.layers)
        /\ Len(z) = Len(net.layers) - 1
        /\ \A k \in 1..Len(net.layers) :
               HasShape(activations[k], net.layers[k], activations[1].c)
        /\ \A k \in 1..(Len(net.layers) - 1) :
               HasShape(z[k], net.layers[k + 1], activations[1].c)

\* C5 witness: a forward pass over three samples on a Network with a hidden
\* layer and two output units.
ForwardThreeSamplesTwoOutputs ==
    /\ activations # <<>>
    /\ Len(net.layers) = 3
    /\ net.layers[3] = 2
    /\ activations[1].c = 3
    /\ HasShape(activations[3], 2, 3)

\* C6: the Network's layers, lr, batch_size, weights and biases change only
\* in a gradient step (back_prop) and on load_model; predict, forward_prop,
\* save_model and every other line of fit, the end-of-epoch forward pass and
\* loss computation included, leave them as they were.
ReadOnlySteps ==
    {"predict", "forward_prop", "save_model", "fit_begin", "fit_epoch",
     "fit_forward", "fit_diag", "fit_print"}

Leftover(f) ==
    {f.indices[k] : k \in (f.samples - (f.samples % net.batch_size) + 1)..f.samples}

FullBatchesOnly ==
    /\ pc = "diag" =>
           /\ Len(updates) = fit.samples \div net.batch_size
           /\ \A u \in 1..Len(updates) : Len(updates[u]) = net.batch_size
           /\ \A u \in 1..Len(updates) : \A k \in 1..Len(updates[u]) :
                  updates[u][k] \notin Leftover(fit)
           /\ Cardinality(Leftover(fit)) = fit.samples % net.batch_size
    /\ (pc = "print" /\ fit.samples < net.batch_size) => Params(net) = entry

\* C7 witness: an epoch over three samples with batch size 2 made one
\* gradient step and left one sample out.
OneBatchOneLeftover ==
    /\ pc = "diag"
    /\ fit.samples = 3
    /\ net.batch_size = 2
    /\ Len(updates) = 1
    /\ Cardinality(Leftover(fit)) = 1

\* The training input is well-shaped: as many features as the input layer.
WellShaped == fit.X.c = net.layers[1]

\* C8: for every requested epoch count, fit on well-shaped input executes
\* exactly that many epochs, records one loss per epoch and then returns
\* normally: no line of it fails.
FitRunsToCompletion ==
    [][/\ (pc = "print" /\ WellShaped) =>
              (Len(fit.losses) = fit.epochs /\ fit.i = fit.epochs /\ ret'.status = "ok")
       /\ (pc \in {"forward", "backward", "diag"} /\ WellShaped) =>
              ret'.status = "running"]_vars

\* C9: every back_prop of fit directly follows the forward_prop of the same
\* minibatch and works on the activations and pre-activations that pass
\* left; every such forward_prop is followed by its back_prop.
BackwardFollowsItsForward ==
    [][/\ step' = "fit_backward" =>
              /\ step = "fit_forward"
              /\ LET fp == forward_prop(net, Transpose(Take(fit.X, BatchIndices(fit))))
                 IN  fp.ok /\ activations = fp.activations /\ z = fp.z
       /\ (step = "fit_forward" /\ pc = "backward") => step' = "fit_backward"]_vars

\* C9 witness: a gradient step in the second epoch, after the whole-data
\* pass that ended the first.
BackwardInSecondEpoch ==
    /\ step = "fit_backward"
    /\ ret.status = "running"
    /\ fit.i = 1
    /\ fit.samples > net.batch_size

\* C10: the confusion counts evaluate returns for two binary label arrays
\* of length N add up to N.
ConfusionTotals ==
    report # NoReport =>
        report.TP + report.FP + report.FN + report.TN = Len(y_true)

\* C10 witness: a report with true positives, false positives and false
\* negatives.
MixedReport ==
    /\ report # NoReport
    /\ report.TP > 0
    /\ report.FP > 0
    /\ report.FN > 0

\* The four metrics of a report.
MetricNames == {"accuracy", "precision", "recall", "f1_score"}

\* A metric that equals 1.0 up to the eps smoothing and the rounding of the
\* divisions behind it.
NearOne(v) == v <= One /\ One - v <= 3 * Eps

\* C11 as stated: whenever every predicted label equals the true label,
\* accuracy, precision, recall and f1_score are each 1.0 up to eps.
AllCorrectScoresOne ==
    (report # NoReport /\ y_pred = y_true) =>
        \A m \in MetricNames : NearOne(report[m])

\* C11 amended: an all-correct prediction set that holds at least one
\* positive label scores 1.0 up to eps on all four metrics; an all-correct
\* set without positives scores 0 on precision, recall and f1_score, and
\* the empty set scores 0 on accuracy too.
AllCorrectWithPositiveScoresOne ==
    (report # NoReport /\ y_pred = y_true) =>
        /\ report.TP > 0 => \A m \in MetricNames : NearOne(report[m])
        /\ report.TP = 0 =>
              /\ report.precision = 0 /\ report.recall = 0 /\ report.f1_score = 0
              /\ Len(y_true) > 0 => NearOne(report.accuracy)
              /\ Len(y_true) = 0 => report.accuracy = 0

\* C11 witness: an all-correct report over positives and negatives.
AllCorrectMixedReport ==
    /\ report # NoReport
    /\ y_pred = y_true
    /\ report.TP > 0
    /\ report.TN > 0

\* C12: evaluate returns a report whose four metrics are all defined
\* numbers in [0, 1] for every pair of equal-length binary label arrays, the
\* empty pair and pairs without predicted or actual positives included.
EvaluateTotal ==
    report # NoReport =>
        \A m \in MetricNames : report[m] # NaN /\ report[m] >= 0 /\ report[m] <= One

\* C12 witness: a report on arrays with no predicted and no actual
\* positive, where TP + FP and TP + FN are both zero.
ReportWithoutPositives ==
    /\ report # NoReport
    /\ Len(y_true) > 0
    /\ report.TP + report.FP = 0
    /\ report.TP + report.FN = 0

\* C13 as stated: an input whose feature count differs from layers[0] is
\* reported before any matrix operation is attempted, so neither predict
\* nor a forward pass of fit ever ends in the ValueError that np.dot raises
\* inside forward_prop.
MismatchReportedBeforeMatrixOps ==
    ~(step \in {"predict", "fit_forward", "fit_diag"} /\ ret.status = "ValueError")

\* C14 as stated: load_model hands out a Network only when the artifact has
\* every field and its stored weights and biases fit its stored layers, so
\* every Network it returns satisfies the shape invariant.
LoadedNetworkWellFormed ==
    (step = "load_model" /\ ret.status = "ok") => ShapeInvariant

\* Whether every weight and bias of a Network is a finite number.
FiniteArray(a) == \A i \in 1..a.r : \A j \in 1..a.c : IsFinite(a.d[i][j])
FiniteParams(n) ==
    \A k \in 1..Len(n.weights) : FiniteArray(n.weights[k]) /\ FiniteArray(n.biases[k])

\* C15 as stated: a gradient step of fit that leaves a NaN or infinite
\* parameter ends the call with a failure, so fit never goes on to a later
\* line with such parameters, never returns normally with them, and no
\* predict call succeeds on them.
NonFiniteStopsTraining ==
    /\ pc # "idle" => FiniteParams(net)
    /\ (ret.op \in {"fit", "predict"} /\ ret.status = "ok") => FiniteParams(net)

\* The numbers a list of arrays holds, whatever container each is in.
Values(arrays) == [k \in 1..Len(arrays) |-> arrays[k].d]

\* Outcome and resulting parameter values of one training step of Network n
\* on the first k samples.
StepOutcome(n, k) ==
    LET fp == forward_prop(n, Transpose(Features(k, n.layers[1])))
        bp == back_prop(n, fp.activations, fp.z, Transpose(Labels(k)))
    IN  [forward |-> fp, status |-> bp.status,
         weights |-> Values(bp.weights), biases |-> Values(bp.biases)]

\* C16 as stated: the Network load_model returns can take the place of the
\* Network that was saved: every predict call gives the same outcome on
\* both, and every training step succeeds on both or on neither and leaves
\* both with the same weights and biases.
LoadedNetworkInterchangeable ==
    (step = "load_model" /\ ret.status = "ok") =>
        /\ \A X \in PredictInputs : predict(net, X) = predict(saved, X)
        /\ \A k \in 1..MaxSamples : StepOutcome(net, k) = StepOutcome(saved, k)

DistinctIds(rows) ==
    \A a, b \in 1..Len(rows) : rows[a].gameId = rows[b].gameId => a = b

\* C18 as stated: from a prediction_history with pairwise distinct gameIds,
\* after any sequence of append_history calls with any lists of new entries
\* prediction_history holds at most one entry per gameId.
HistoryIdsDistinct == DistinctIds(store.history)

\* C19 as stated: after any sequence of update_predictions and
\* generate_new_predictions calls every game entry that was removed from
\* current_predictions is in prediction_history, and no entry was removed
\* that update_predictions had not resolved as finished.
MovesFinishedOnly ==
    \A g \in ledger.removed :
        g \in IdsOf(store.history) /\ g \in ledger.resolved

\* C20: run_all starts generating only after the update has returned, and
\* once the update has returned, whether None, [] or entries, it does not
\* end without having called the generation step.
RunAllUpdatesThenGenerates ==
    /\ job.pc = "generate" =>
          job.op = "run_all" /\ job.status = "running" /\ job.ran = <<"update">>
    /\ (job.op = "run_all" /\ job.pc = "respond") =>
          \/ job.ran = <<"update", "generate">> /\ job.status = "returned"
          \/ job.status = "raised" /\ job.ran \in {<<>>, <<"update">>}

\* run_all has returned new predictions after an update that returned None.
GeneratedAfterUpdateNone ==
    /\ job.op = "run_all"
    /\ job.status = "returned"
    /\ job.updated = "None"
    /\ job.created = "rows"

\* C21 as stated: after any sequence of calls current_predictions holds at
\* most one entry per gameId, and no prediction was made for a game whose
\* row was in current_predictions.
NeverPredictsTwice ==
    /\ DistinctIds(store.current)
    /\ ~ledger.again

\* C22 as stated: once bootstrap_model has completed without raising, the
\* key tested by model_exists and wait_for_required_files exists, and a
\* bootstrap_model after a completed one does not train.
BootstrapEnsuresModel ==
    /\ boot.last \in {"completed", "skipped"} => MODEL_KEY \in bucket
    /\ ~boot.retrained

\* C30 as stated: whenever train_model has built a network, its layers are
\* the number of available feature columns followed by the layer list given
\* to the constructor.
BuiltFromGivenLayers ==
    trainer.built # <<>> => trainer.built = <<trainer.input_dim>> \o trainer.given

\* C23 as stated (the part about states): every computed sleep is at least
\* one second, every scheduled run is started within a second of 12:00 on
\* the clock of Helsinki, and no two scheduled runs are started on one
\* Helsinki date.
RunsOnceAtNoon ==
    /\ runner.pc = "run" =>
           /\ runner.slept >= 1
           /\ TimeOfDay(runner.now, runner.dst) <= Noon
           /\ TimeOfDay(runner.now, runner.dst) > Noon - Second
    /\ runner.pc # "off" => ~runner.twice

\* The labels back_prop is given: by a direct call, the labels of the samples
\* of the last forward pass; inside fit, those of the minibatch.
LabelsGiven ==
    IF pc = "backward"
    THEN Transpose(Take(fit.Y, BatchIndices(fit)))
    ELSE Transpose(Labels(activations[1].c))

BackPropStep ==
    \/ pc = "backward" /\ step' = "fit_backward"
    \/ pc = "idle" /\ step' = "back_prop" /\ calls' = calls + 1

\* C24: a back_prop that returns has changed every layer exactly once, by
\* lr times the gradient computed from the weights and biases it found on
\* entry; a back_prop that raises while the gradients are computed has
\* changed nothing.
GradientsFromEntryWeights ==
    [][BackPropStep =>
          IF ret'.status \in {"ok", "running"}
          THEN \A i \in 1..(Len(net.layers) - 1) :
                   /\ net'.weights[i] =
                          Step(net.weights[i], Dw(net, activations, z, LabelsGiven, i), net.lr)
                   /\ net'.biases[i] =
                          Step(net.biases[i], Db(net, activations, z, LabelsGiven, i), net.lr)
          ELSE net' = net]_vars

\* C24 witness: a direct back_prop has returned on a network with a hidden
\* layer and has changed the weights of its first layer.
HiddenLayerUpdated ==
    /\ step = "back_prop"
    /\ ret.status = "ok"
    /\ Len(net.layers) = 3
    /\ \A seed \in Seeds :
           LET new == NewNetwork(net.layers, net.lr, net.batch_size, seed)
           IN  net.weights[1] # new.weights[1] /\ net.weights[2] # new.weights[2]

\* The errors as the design gives them, for networks of one or two layer
\* transitions: the output error is a_last - y, the error of the hidden
\* layer is the transposed weights leading out of it times the output error,
\* masked by relu_derivative of the hidden layer's own pre-activation.
Hadamard(a, b) ==
    NdArray(a.r, a.c, [r \in 1..a.r |-> [c \in 1..a.c |-> FMul(a.d[r][c], b.d[r][c])]])
OutputError == BSub(activations[Len(net.layers)], LabelsGiven)
HiddenError == Hadamard(Dot(Transpose(net.weights[2]), OutputError), drelu(z[1]))
ErrorOf(i) == IF i = Len(net.layers) - 1 THEN OutputError ELSE HiddenError

\* back_prop can be entered: inside fit after the forward pass of the
\* minibatch, or directly once a forward pass has left its activations.
BackPropEnabled ==
    \/ pc = "backward"
    \/ pc = "idle" /\ activations # <<>> /\ HiddenTransposeOK(net)

\* C25: whenever back_prop can be entered, the error it computes for every
\* layer is the one of the design, and the gradient for the weights leading
\* into layer i is that error times the transposed activation of layer i-1
\* divided by batch_size, with the shape of those weights.
PairsLayersCorrectly ==
    BackPropEnabled =>
        \A i \in 1..(Len(net.layers) - 1) :
            LET dw == Dw(net, activations, z, LabelsGiven, i)
            IN  /\ Dz(net, activations, z, LabelsGiven, i) = ErrorOf(i)
                /\ dw = DivCount(Dot(ErrorOf(i), Transpose(activations[i])), net.batch_size)
                /\ dw.r = net.weights[i].r
                /\ dw.c = net.weights[i].c

\* C25 witness: fit is about to run back_prop on a minibatch of two samples
\* through a hidden layer of two units, one of whose errors is not zero and
\* one of whose units is masked.
HiddenErrorMasked ==
    /\ pc = "backward"
    /\ net.layers = <<2, 2, 1>>
    /\ activations[1].c = 2
    /\ \E r \in 1..2, c \in 1..2 : HiddenError.d[r][c] # 0
    /\ \E r \in 1..2, c \in 1..2 : drelu(z[1]).d[r][c] = 0

\* What predict makes of the output activations it reads.
ItemsOf(acts) ==
    LET probs == Flatten(acts[Len(acts)])
    IN  [k \in 1..Len(probs) |->
            [result |-> IF 2 * probs[k] >= One THEN 1 ELSE 0,
             confidence |-> IF 2 * probs[k] >= One THEN probs[k] ELSE FSub(One, probs[k])]]

\* The retained state is what a forward pass of the network n leaves for the
\* input it holds.
PassOf(n, acts, zs) ==
    LET fp == forward_prop(n, acts[1])
    IN  fp.ok /\ acts = fp.activations /\ zs = fp.z

DirectBackProp == pc = "idle" /\ step' = "back_prop" /\ calls' = calls + 1

\* Inside fit and predict every read of the activations and pre-activations
\* follows a forward pass of the same call: the back_prop of a minibatch
\* follows the forward pass of that minibatch, the loss of an epoch is taken
\* from the whole-data pass made for it, and predict answers from the pass
\* it has just made.
ReadsFollowOwnPass ==
    /\ step' = "fit_backward" =>
           /\ step = "fit_forward"
           /\ PassOf(net, activations, z)
    /\ (step' = "fit_diag" /\ pc' = "epoch") =>
           /\ PassOf(net, activations', z')
           /\ activations'[1] = Transpose(fit.X)
           /\ fit'.losses[Len(fit'.losses)] =
                  bce_loss(Transpose(fit.Y), activations'[Len(activations')])
    /\ (step' = "predict" /\ calls' = calls + 1 /\ ret'.status = "ok") =>
           /\ PassOf(net, activations', z')
           /\ ret'.items = ItemsOf(activations')

\* C26 as stated: reads inside fit and predict follow a forward pass of the
\* same call, and no call of the public interface starts by reading the
\* transient state: a direct back_prop, which runs no forward pass of its
\* own, does not occur.
NoReadAcrossCalls ==
    [][ReadsFollowOwnPass /\ ~DirectBackProp]_vars

\* C26 amended: reads inside fit and predict follow a forward pass of the
\* same call; back_prop called directly works on the activations and
\* pre-activations the last forward pass of an earlier call left, and raises
\* AttributeError, changing nothing, when no forward pass has run.
OnlyBackPropReadsAcrossCalls ==
    [][/\ ReadsFollowOwnPass
       /\ DirectBackProp =>
              IF activations = <<>>
              THEN ret'.status = "AttributeError" /\ net' = net
              ELSE LET bp == back_prop(net, activations, z, LabelsGiven)
                   IN  /\ ret'.status = bp.status
                       /\ net'.weights = bp.weights
                       /\ net'.biases = bp.biases]_vars

\* C26 witness: a direct back_prop has returned after working on the
\* activations that a predict on three rows, an earlier call, left.
BackPropOnPredictState ==
    /\ step = "back_prop"
    /\ ret.status = "ok"
    /\ activations # <<>>
    /\ activations[1].c = 3

\* The running fit call was given another feature count than layers[0].
FitMismatch == pc # "idle" /\ fit.X.c # net.layers[1]

\* The inputs of predict with another feature count than layers[0].
MismatchedInputs ==
    {X \in PredictInputs : (IF X.ndim = 1 THEN X.n ELSE X.a.c) # net.layers[1]}

\* predict on a mismatched input raises at the first product, nothing
\* computed; a fit call that runs on mismatched features has changed no
\* parameter, never reaches back_prop, and its first forward pass ends it.
FailsAtFirstProduct ==
    /\ CanCall =>
           \A X \in MismatchedInputs :
               LET out == predict(net, X)
               IN  out.status = "ValueError" /\ out.forward.z = <<>>
    /\ FitMismatch =>
           /\ <<net.weights, net.biases>> = entry
           /\ pc # "backward"
           /\ updates = <<>>
    /\ (FitMismatch /\ pc \in {"forward", "diag"}) =>
           /\ pc' = "idle"
           /\ ret'.status = "ValueError"
           /\ net' = net

\* C27 as stated: predict and every fit call with a feature count other
\* than layers[0] fail at the first matrix multiplication of their first
\* forward pass, no parameter changed: such a fit call ends in no other way.
MismatchFailsAtFirstProduct ==
    [][/\ FailsAtFirstProduct
       /\ (FitMismatch /\ pc' = "idle") =>
              /\ step' \in {"fit_forward", "fit_diag"}
              /\ ret'.status = "ValueError"]_vars

\* C27 amended: the same for predict and for every fit call of at least one
\* epoch.
MismatchFailsAtFirstProductOfAnEpoch ==
    [][/\ FailsAtFirstProduct
       /\ (FitMismatch /\ fit.epochs >= 1 /\ pc' = "idle") =>
              /\ step' \in {"fit_forward", "fit_diag"}
              /\ ret'.status = "ValueError"]_vars

\* C27 witness: a fit call has been ended by the ValueError of the forward
\* pass of its first minibatch.
FitEndedAtFirstForward ==
    /\ step = "fit_forward"
    /\ pc = "idle"
    /\ ret = Returned("fit", "ValueError")

\* The samples used by the gradient steps of the current epoch so far, in
\* the order of their use.
RECURSIVE Concat(_)
Concat(seqs) == IF seqs = <<>> THEN <<>> ELSE Head(seqs) \o Concat(Tail(seqs))
UsedSamples == Concat(updates)

\* The sample whose feature row is column c of the input of the last forward
\* pass, and the labels that belong to the samples of that input.
SampleAt(c) ==
    CHOOSE k \in 1..fit.samples :
        \A r \in 1..fit.X.c : activations[1].d[r][c] = FeatureRow(k, fit.X.c)[r]
OwnLabels ==
    NdArray(1, activations[1].c, <<[c \in 1..activations[1].c |-> Label(SampleAt(c))]>>)

\* C28: within an epoch no sample is used by two gradient steps; every
\* gradient step is taken on feature rows together with the labels of the
\* same samples; and while fit runs, X and Y stay as the caller gave them.
MinibatchesDisjointAndPaired ==
    [][/\ \A a, b \in 1..Len(UsedSamples) : a # b => UsedSamples[a] # UsedSamples[b]
       /\ pc = "backward" =>
              LET bp == back_prop(net, activations, z, OwnLabels)
              IN  net'.weights = bp.weights /\ net'.biases = bp.biases
       /\ pc # "idle" =>
              /\ fit.X = Features(fit.samples, fit.X.c)
              /\ fit.Y = Labels(fit.samples)
       /\ (pc # "idle" /\ pc' # "idle") => (fit'.X = fit.X /\ fit'.Y = fit.Y)]_vars

\* C28 witness: an epoch over three samples drawn in the order 2, 3, 1 has
\* taken its three gradient steps, one sample each.
ThreeShuffledSteps ==
    /\ pc = "diag"
    /\ step = "fit_backward"
    /\ updates = << <<2>>, <<3>>, <<1>> >>

\* C29 as stated: whatever the read and the write inside it do, every entry
\* prediction_history held before an append_history call is in it, unchanged,
\* after the call.
AppendOnlyAdds ==
    [][job'.op = "append_history" =>
          \A k \in 1..Len(store.history) :
              \E j \in 1..Len(store'.history) : store'.history[j] = store.history[k]]_vars

====
